---- MODULE Spec2Model ----
(***************************************************************************)
(* A model of the memelord memory store (packages/sdk/src/store.ts,        *)
(* scoring.ts): the four relations of the database file, the process-local *)
(* state of each MemoryStore object, and every public operation split at   *)
(* its awaits on withDb() and embed().                                     *)
(*                                                                         *)
(* Reals are fixed-point integers: a weight, score, credit or mean x is    *)
(* held as x * Scale, and a division is an integer division.               *)
(***************************************************************************)
EXTENDS Integers, Sequences, FiniteSets, TLC

\* ------------------------------------------------------------------ bounds

\* The memory ids and task ids randomUUID() hands out, and the calls made in a run.
MaxMems == 2
MaxTasks == 2
MaxCalls == 3

\* ------------------------------------------------- fixed point and helpers

Scale == 10 * 100

Max2(a, b) == IF a >= b THEN a ELSE b
Min2(a, b) == IF a <= b THEN a ELSE b

RECURSIVE SqrtSearch(_, _, _)
SqrtSearch(n, lo, hi) ==
    IF lo >= hi THEN lo
    ELSE LET mid == (lo + hi + 1) \div 2
         IN  IF mid * mid <= n THEN SqrtSearch(n, mid, hi)
                               ELSE SqrtSearch(n, lo, mid - 1)

\* floor(sqrt(n)) for 0 <= n < 2^30
ISqrt(n) == SqrtSearch(n, 0, 32767)

\* ----------------------------------------------------------- configuration

\* The defaults of the constructor; a rate r is held as r * Scale.
TopK == 5
LearningRate == 100
DecayRate == 995

\* init()'s repair threshold, in bytes: length(embedding) < 1536.
MigrationBytes == 1536

\* The clamp of updateWeight and the floor of penalizeMemory, times Scale.
WMin == 100
WMax == 5000

\* decay()'s deletion thresholds.
DecayDeleteWeight == 150
DecayDeleteCount == 5

\* withDb's retry budget.
maxRetries == 10

\* ------------------------------------------------------------ scoring.ts

emptyBaseline ==
    [count |-> 0, meanTokens |-> 0, meanErrors |-> 0, meanUserCorrections |-> 0,
     m2Tokens |-> 0, m2Errors |-> 0, m2UserCorrections |-> 0]

updateBaseline(baseline, tokens, errors, userCorrections) ==
    LET n == baseline.count + 1
        dTokens == tokens * Scale - baseline.meanTokens
        dErrors == errors * Scale - baseline.meanErrors
        dUserCorr == userCorrections * Scale - baseline.meanUserCorrections
        meanTokens == baseline.meanTokens + dTokens \div n
        meanErrors == baseline.meanErrors + dErrors \div n
        meanUserCorrections == baseline.meanUserCorrections + dUserCorr \div n
    IN  [count |-> n,
         meanTokens |-> meanTokens,
         meanErrors |-> meanErrors,
         meanUserCorrections |-> meanUserCorrections,
         m2Tokens |-> baseline.m2Tokens
                        + (dTokens * (tokens * Scale - meanTokens)) \div Scale,
         m2Errors |-> baseline.m2Errors
                        + (dErrors * (errors * Scale - meanErrors)) \div Scale,
         m2UserCorrections |-> baseline.m2UserCorrections
                        + (dUserCorr * (userCorrections * Scale - meanUserCorrections)) \div Scale]

\* Math.sqrt(m2 / (count - 1)) || 1, times Scale (the root to 1/100).
stddev(m2, count) ==
    IF count < 2 THEN Scale
    ELSE LET r == ISqrt((m2 \div (count - 1)) * 10) * 10
         IN  IF r = 0 THEN Scale ELSE r

computeTaskScoreLate(baseline, tokens, errors, userCorrections, completed) ==
    LET completedSignal == IF completed THEN Scale ELSE -Scale
    IN  IF baseline.count <= 10
        THEN LET tokenDelta ==
                     IF baseline.count > 0
                     THEN ((baseline.meanTokens - tokens * Scale) * Scale)
                              \div Max2(baseline.meanTokens, Scale)
                     ELSE 0
                 errorDelta ==
                     IF baseline.count > 0
                     THEN ((baseline.meanErrors - errors * Scale) * Scale)
                              \div Max2(baseline.meanErrors, Scale)
                     ELSE 0
             IN  tokenDelta + errorDelta - (userCorrections * Scale) \div 2 + completedSignal
        ELSE LET zTokens == ((tokens * Scale - baseline.meanTokens) * Scale)
                                \div stddev(baseline.m2Tokens, baseline.count)
                 zErrors == ((errors * Scale - baseline.meanErrors) * Scale)
                                \div stddev(baseline.m2Errors, baseline.count)
                 zUserCorr == ((userCorrections * Scale - baseline.meanUserCorrections) * Scale)
                                \div stddev(baseline.m2UserCorrections, baseline.count)
             IN  -zTokens - zErrors - zUserCorr + completedSignal

computeTaskScore(baseline, tokens, errors, userCorrections, completed) ==
    LET completedSignal == IF completed THEN Scale ELSE -Scale
    IN  IF baseline.count < 10
        THEN LET tokenDelta ==
                     IF baseline.count > 0
                     THEN ((baseline.meanTokens - tokens * Scale) * Scale)
                              \div Max2(baseline.meanTokens, Scale)
                     ELSE 0
                 errorDelta ==
                     IF baseline.count > 0
                     THEN ((baseline.meanErrors - errors * Scale) * Scale)
                              \div Max2(baseline.meanErrors, Scale)
                     ELSE 0
             IN  tokenDelta + errorDelta - (userCorrections * Scale) \div 2 + completedSignal
        ELSE LET zTokens == ((tokens * Scale - baseline.meanTokens) * Scale)
                                \div stddev(baseline.m2Tokens, baseline.count)
                 zErrors == ((errors * Scale - baseline.meanErrors) * Scale)
                                \div stddev(baseline.m2Errors, baseline.count)
                 zUserCorr == ((userCorrections * Scale - baseline.meanUserCorrections) * Scale)
                                \div stddev(baseline.m2UserCorrections, baseline.count)
             IN  -zTokens - zErrors - zUserCorr + completedSignal

computeCredit(taskScore, selfReportScore, numMemoriesRetrieved) ==
    (taskScore * selfReportScore) \div (3 * Max2(numMemoriesRetrieved, 1))

updateWeight(oldWeight, credit, learningRate) ==
    LET raw == ((Scale - learningRate) * oldWeight + learningRate * credit) \div Scale
    IN  Max2(WMin, Min2(WMax, raw))

\* avgTokensPerTask is in whole tokens; 0 stands for a missing or zero average.
initialWeight(category, source, tokensWasted, avgTokensPerTask) ==
    CASE category = "correction" ->
            LET avg == IF avgTokensPerTask = 0 THEN 10000 ELSE avgTokensPerTask
                cost == tokensWasted
            IN  Scale + (cost * Scale) \div avg
      [] category = "user" ->
            CASE source = "user_denial" -> 2 * Scale
              [] source = "user_correction" -> (5 * Scale) \div 2
              [] source = "user_input" -> 2 * Scale
              [] OTHER -> 2 * Scale
      [] category = "insight" -> Scale
      [] category = "consolidated" -> Scale
      [] OTHER -> Scale

\* ------------------------------------------------------------------ state

Procs == {"p1", "p2"}

\* The texts are "a" and "b"; NoText is an argument left out.
NoText == "-"

\* A column that is NULL.
NULLINT == -(10 * 100 * 100)

\* An embedding column: NULL, or a blob of `bytes` bytes holding the vector of `text`.
NullEmb == [isNull |-> TRUE, bytes |-> 0, text |-> NoText]

\* What embed() returns: a Float32Array of `len` elements, the vector of `text`.
NoVec == [len |-> 0, text |-> NoText]

VARIABLES
    db,         \* the database file: [memories, tasks, retrievals, meta]
    ids,        \* randomUUID(): the ids handed out so far, and the calls made: [mem, task, calls]
    dimensions, \* config.dimensions
    now,        \* Date.now(), in days
    store,      \* per process, the MemoryStore fields: initialized, currentTaskId, baseline, topK
    pc,         \* per process, the await the running operation is at
    frame,      \* per process, the running operation's arguments and locals (and, for
                \* startTask, `seen`: the memories the database held when it was called)
    conn,       \* per process, withDb's connection: "none", "open" (connected), "ready" (busy timeout set)
    attempt,    \* per process, withDb's loop variable
    leaked,     \* per process, a connection was opened and never closed
    result,     \* per process, what the last operation returned or threw
    obs         \* per process, what a caller can observe: the connects and delays of the
                \* current withDb, its last connect error, the endTask calls that succeeded

vars == <<db, ids, dimensions, now, store, pc, frame, conn, attempt, leaked, result, obs>>

emptyDb ==
    [memories |-> <<>>, tasks |-> <<>>, retrievals |-> {},
     meta |-> [has |-> FALSE, baseline |-> emptyBaseline]]

MemIds(d) == DOMAIN d.memories
TaskIds(d) == DOMAIN d.tasks

NoInput ==
    [tokensUsed |-> 0, toolCalls |-> 0, errors |-> 0, userCorrections |-> 0,
     completed |-> FALSE, selfReport |-> <<>>]

NoFrame ==
    [op |-> "none", text |-> NoText, memId |-> 0, taskId |-> 0, newId |-> 0,
     now |-> 0, input |-> NoInput, vec |-> NoVec, pending |-> <<>>,
     embedded |-> <<>>, weight |-> 0, category |-> "none", source |-> "none",
     tokensWasted |-> 0, deleted |-> FALSE, taskScore |-> 0, seen |-> {}]

NoResult == [op |-> "none", status |-> "none", value |-> 0, mems |-> <<>>, err |-> "none"]

NoObs == [connects |-> 0, delays |-> 0, lastErr |-> "none", endOk |-> 0, endCount |-> 0]

\* The phases that are one withDb() call each.
DbPhases ==
    {"init", "st_db", "rc_db", "ru_db", "et_db", "dc_db", "pg_db", "gs_db",
     "gt_db", "ir_db", "ep_read", "ep_write", "cm_delete", "cm_insert", "pn_db"}

\* The phases that are one embed() call each.
EmbedPhases == {"st_embed", "rc_embed", "ru_embed", "ep_embed", "cm_embed"}

\* The state after construction of the stores with config.topK = k, on the
\* database file d.
InitCfg(d, handedOut, dims, k) ==
    /\ db = d
    /\ ids = handedOut
    /\ dimensions = dims
    /\ now = 1
    /\ store = [p \in Procs |-> [initialized |-> FALSE, currentTaskId |-> 0,
                                 baseline |-> emptyBaseline, topK |-> k]]
    /\ pc = [p \in Procs |-> "idle"]
    /\ frame = [p \in Procs |-> NoFrame]
    /\ conn = [p \in Procs |-> "none"]
    /\ attempt = [p \in Procs |-> 0]
    /\ leaked = [p \in Procs |-> FALSE]
    /\ result = [p \in Procs |-> NoResult]
    /\ obs = [p \in Procs |-> NoObs]

\* The same with the default topK.
InitWith(d, handedOut, dims) == InitCfg(d, handedOut, dims, TopK)

\* A new database file, stores configured as in the tests (dimensions: 8).
Init == InitWith(emptyDb, [mem |-> 0, task |-> 0, calls |-> 0], 8)

\* --------------------------------------------------- the SQL of each withDb body

Restrict(f, S) == [i \in S |-> f[i]]

\* vecBuf: the Float32Array's bytes, 4 per element. A vector is [len, text].
vecBuf(vec) == [isNull |-> FALSE, bytes |-> vec.len * 4, text |-> vec.text]

NewMemory(content, embedding, category, weight, cost, createdAt, sourceTask) ==
    [content |-> content, embedding |-> embedding, category |-> category,
     weight |-> weight, initial_cost |-> cost, created_at |-> createdAt,
     last_retrieved |-> NULLINT, retrieval_count |-> 0, source_task |-> sourceTask]

InsertMemory(d, id, row) ==
    [d EXCEPT !.memories = [i \in MemIds(d) \cup {id} |->
                               IF i = id THEN row ELSE d.memories[i]]]

DeleteMemories(d, gone) ==
    [d EXCEPT !.memories = Restrict(d.memories, MemIds(d) \ gone)]

\* init(): the embedding-length repair (the schema is the shape of db).
InitBody(d) ==
    [d EXCEPT !.memories = [i \in MemIds(d) |->
        IF ~d.memories[i].embedding.isNull /\ d.memories[i].embedding.bytes < MigrationBytes
        THEN [d.memories[i] EXCEPT !.embedding = NullEmb]
        ELSE d.memories[i]]]

\* The cosine similarity of the vectors of two texts, times Scale
\* (a content-reflective embedder: a text is closest to itself).
Similarity(t1, t2) == IF t1 = t2 THEN Scale ELSE Scale \div 2

RECURSIVE Pow(_, _)
Pow(rate, days) == IF days <= 0 THEN Scale ELSE (rate * Pow(rate, days - 1)) \div Scale

\* The same ranking multiplied by the stored weight.
RankScoreWeighted(row, vec, nowv) ==
    LET anchor == IF row.last_retrieved = NULLINT THEN row.created_at
                                                  ELSE row.last_retrieved
    IN  (((Similarity(row.embedding.text, vec.text) * Pow(DecayRate, nowv - anchor)) \div Scale)
            * row.weight) \div Scale

RankScore(row, vec, nowv) ==
    LET anchor == IF row.last_retrieved = NULLINT THEN row.created_at
                                                  ELSE row.last_retrieved
    IN  (Similarity(row.embedding.text, vec.text) * Pow(DecayRate, nowv - anchor)) \div Scale

RECURSIVE TopRowsLowest(_, _, _, _, _)
TopRowsLowest(d, S, vec, nowv, k) ==
    IF S = {} \/ k <= 0 THEN <<>>
    ELSE LET worst == CHOOSE m \in S : \A o \in S :
                        \/ RankScore(d.memories[m], vec, nowv) < RankScore(d.memories[o], vec, nowv)
                        \/ /\ RankScore(d.memories[m], vec, nowv) = RankScore(d.memories[o], vec, nowv)
                           /\ m <= o
         IN  <<worst>> \o TopRowsLowest(d, S \ {worst}, vec, nowv, k - 1)

\* The same ordering without the LIMIT.
RECURSIVE TopRowsNoLimit(_, _, _, _, _)
TopRowsNoLimit(d, S, vec, nowv, k) ==
    IF S = {} THEN <<>>
    ELSE LET best == CHOOSE m \in S : \A o \in S :
                        \/ RankScore(d.memories[m], vec, nowv) > RankScore(d.memories[o], vec, nowv)
                        \/ /\ RankScore(d.memories[m], vec, nowv) = RankScore(d.memories[o], vec, nowv)
                           /\ m <= o
         IN  <<best>> \o TopRowsNoLimit(d, S \ {best}, vec, nowv, k)

\* ORDER BY similarity * recency DESC LIMIT k; ties in storage row order.
RECURSIVE TopRows(_, _, _, _, _)
TopRows(d, S, vec, nowv, k) ==
    IF S = {} \/ k <= 0 THEN <<>>
    ELSE LET best == CHOOSE m \in S : \A o \in S :
                        \/ RankScore(d.memories[m], vec, nowv) > RankScore(d.memories[o], vec, nowv)
                        \/ /\ RankScore(d.memories[m], vec, nowv) = RankScore(d.memories[o], vec, nowv)
                           /\ m <= o
         IN  <<best>> \o TopRows(d, S \ {best}, vec, nowv, k - 1)

SeqRange(s) == {s[i] : i \in DOMAIN s}

\* WHERE embedding IS NOT NULL
Retrievable(d) == {m \in MemIds(d) : ~d.memories[m].embedding.isNull}

\* vector_distance_cos fails on vectors of different lengths.
SelectFails(d, vec) == \E m \in Retrievable(d) : d.memories[m].embedding.bytes # vec.bytes

NewTask(description, embedding, startedAt) ==
    [description |-> description, embedding |-> embedding, tokens_used |-> NULLINT,
     tool_calls |-> NULLINT, errors |-> NULLINT, user_corrections |-> NULLINT,
     completed |-> NULLINT, task_score |-> NULLINT, started_at |-> startedAt,
     finished_at |-> NULLINT]

InsertAlways(rows, row) == rows \cup {row}

\* An INSERT OR IGNORE that ignores every row.
InsertIgnored(rows, row) == rows

\* INSERT OR IGNORE INTO memory_retrievals, whose PRIMARY KEY is (memory_id, task_id)
InsertOrIgnore(rows, row) ==
    IF \E r \in rows : r.memory_id = row.memory_id /\ r.task_id = row.task_id
    THEN rows
    ELSE rows \cup {row}

\* The retrieval rows of the returned memories, inserted one by one.
RECURSIVE RecordRetrievals(_, _)
RecordRetrievals(rows, new) ==
    IF new = {} THEN rows
    ELSE LET r == CHOOSE x \in new : TRUE
         IN  RecordRetrievals(InsertOrIgnore(rows, r), new \ {r})

StartTaskBodyNoWhere(d, taskId, description, vec, nowv, k) ==
    LET d1 == [d EXCEPT !.tasks = [t \in TaskIds(d) \cup {taskId} |->
                    IF t = taskId THEN NewTask(description, vec, nowv) ELSE d.tasks[t]]]
        rows == TopRows(d1, Retrievable(d1), vec, nowv, k)
        got == SeqRange(rows)
        mems == [i \in DOMAIN rows |->
                    [id |-> rows[i],
                     score |-> Similarity(d1.memories[rows[i]].embedding.text, vec.text),
                     weight |-> d1.memories[rows[i]].weight]]
        fresh == {[memory_id |-> m, task_id |-> taskId,
                   similarity |-> Similarity(d1.memories[m].embedding.text, vec.text),
                   self_report |-> NULLINT, credit |-> NULLINT] : m \in got}
    IN  IF SelectFails(d1, vec)
        THEN [db |-> d1, ok |-> FALSE, mems |-> <<>>]
        ELSE [db |-> [d1 EXCEPT
                        !.retrievals = RecordRetrievals(d1.retrievals, fresh),
                        !.memories = [m \in MemIds(d1) |->
                            IF m \in MemIds(d1)
                            THEN [d1.memories[m] EXCEPT
                                    !.last_retrieved = nowv,
                                    !.retrieval_count = d1.memories[m].retrieval_count + 1]
                            ELSE d1.memories[m]]],
              ok |-> TRUE, mems |-> mems]

\* startTask's withDb body: [db, ok, mems]. The statements autocommit one by one,
\* so the task row stays when the SELECT fails.
StartTaskBody(d, taskId, description, vec, nowv, k) ==
    LET d1 == [d EXCEPT !.tasks = [t \in TaskIds(d) \cup {taskId} |->
                    IF t = taskId THEN NewTask(description, vec, nowv) ELSE d.tasks[t]]]
        rows == TopRows(d1, Retrievable(d1), vec, nowv, k)
        got == SeqRange(rows)
        mems == [i \in DOMAIN rows |->
                    [id |-> rows[i],
                     score |-> Similarity(d1.memories[rows[i]].embedding.text, vec.text),
                     weight |-> d1.memories[rows[i]].weight]]
        fresh == {[memory_id |-> m, task_id |-> taskId,
                   similarity |-> Similarity(d1.memories[m].embedding.text, vec.text),
                   self_report |-> NULLINT, credit |-> NULLINT] : m \in got}
    IN  IF SelectFails(d1, vec)
        THEN [db |-> d1, ok |-> FALSE, mems |-> <<>>]
        ELSE [db |-> [d1 EXCEPT
                        !.retrievals = RecordRetrievals(d1.retrievals, fresh),
                        !.memories = [m \in MemIds(d1) |->
                            IF m \in got
                            THEN [d1.memories[m] EXCEPT
                                    !.last_retrieved = nowv,
                                    !.retrieval_count = d1.memories[m].retrieval_count + 1]
                            ELSE d1.memories[m]]],
              ok |-> TRUE, mems |-> mems]

RECURSIVE SumTokens(_, _)
SumTokens(d, S) ==
    IF S = {} THEN 0
    ELSE LET t == CHOOSE x \in S : TRUE
         IN  d.tasks[t].tokens_used + SumTokens(d, S \ {t})

\* AVG(tokens_used) over the tasks that have one, in whole tokens (at least 1
\* when positive); 0 when there is none or it is 0.
AvgTokens(d) ==
    LET S == {t \in TaskIds(d) : d.tasks[t].tokens_used # NULLINT}
    IN  IF S = {} THEN 0
        ELSE IF SumTokens(d, S) = 0 THEN 0
        ELSE Max2(1, SumTokens(d, S) \div Cardinality(S))

ReportCorrectionBody(d, id, content, vec, tokensWasted, nowv, sourceTask) ==
    InsertMemory(d, id,
        NewMemory(content, vecBuf(vec), "correction",
                  initialWeight("correction", "none", tokensWasted, AvgTokens(d)),
                  tokensWasted, nowv, sourceTask))

ReportUserInputBody(d, id, content, vec, source, nowv, sourceTask) ==
    InsertMemory(d, id,
        NewMemory(content, vecBuf(vec), "user", initialWeight("user", source, 0, 0),
                  0, nowv, sourceTask))

InsertRawBody(d, id, content, category, weight, nowv, sourceTask) ==
    InsertMemory(d, id, NewMemory(content, NullEmb, category, weight, 0, nowv, sourceTask))

\* endTask's self-report loop, entry by entry.
RECURSIVE SelfReportLoop(_, _, _, _, _)
SelfReportLoop(d, taskId, report, i, taskScore) ==
    IF i > Len(report) THEN d
    ELSE LET entry == report[i]
             credit == computeCredit(taskScore, entry.score, Len(report))
             d1 == IF entry.memoryId \in MemIds(d)
                   THEN [d EXCEPT !.memories[entry.memoryId].weight =
                            updateWeight(d.memories[entry.memoryId].weight, credit, LearningRate)]
                   ELSE d
             d2 == [d1 EXCEPT !.retrievals =
                      {IF r.memory_id = entry.memoryId /\ r.task_id = taskId
                       THEN [r EXCEPT !.self_report = entry.score, !.credit = credit]
                       ELSE r : r \in d1.retrievals}]
         IN  SelfReportLoop(d2, taskId, report, i + 1, taskScore)

EndTaskBodyNoTaskRow(d, taskId, input, taskScore, baseline, nowv) ==
    SelfReportLoop([d EXCEPT !.meta = [has |-> TRUE, baseline |-> baseline]],
                   taskId, input.selfReport, 1, taskScore)

EndTaskBody(d, taskId, input, taskScore, baseline, nowv) ==
    LET d1 == IF taskId \in TaskIds(d)
              THEN [d EXCEPT !.tasks[taskId] =
                      [d.tasks[taskId] EXCEPT
                         !.tokens_used = input.tokensUsed,
                         !.tool_calls = input.toolCalls,
                         !.errors = input.errors,
                         !.user_corrections = input.userCorrections,
                         !.completed = IF input.completed THEN 1 ELSE 0,
                         !.task_score = taskScore,
                         !.finished_at = nowv]]
              ELSE d
        d2 == [d1 EXCEPT !.meta = [has |-> TRUE, baseline |-> baseline]]
    IN  SelfReportLoop(d2, taskId, input.selfReport, 1, taskScore)

\* UPDATE memories SET weight = weight * ?
DecayWeight(w) == (w * DecayRate) \div Scale

DecayDeletesNoGuard(row) == row.weight < DecayDeleteWeight

DecayDeletesUnretrieved(row) ==
    row.weight < DecayDeleteWeight /\ row.retrieval_count < DecayDeleteCount

\* DELETE FROM memories WHERE weight < 0.15 AND retrieval_count > 5
DecayDeletes(row) == row.weight < DecayDeleteWeight /\ row.retrieval_count > DecayDeleteCount

DecayBodyPrunesTasks(d) ==
    LET d1 == [d EXCEPT !.memories = [m \in MemIds(d) |->
                    [d.memories[m] EXCEPT !.weight = DecayWeight(d.memories[m].weight)]]]
        gone == {m \in MemIds(d1) : DecayDeletes(d1.memories[m])}
        kept == {t \in TaskIds(d) : d.tasks[t].finished_at = NULLINT}
    IN  [db |-> [DeleteMemories(d1, gone) EXCEPT !.tasks = Restrict(d.tasks, kept)],
         decayed |-> Cardinality(MemIds(d)), deleted |-> Cardinality(gone)]

DecayBody(d) ==
    LET d1 == [d EXCEPT !.memories = [m \in MemIds(d) |->
                    [d.memories[m] EXCEPT !.weight = DecayWeight(d.memories[m].weight)]]]
        gone == {m \in MemIds(d1) : DecayDeletes(d1.memories[m])}
    IN  [db |-> DeleteMemories(d1, gone),
         decayed |-> Cardinality(MemIds(d)), deleted |-> Cardinality(gone)]

PurgeBody(d, threshold) ==
    LET gone == {m \in MemIds(d) : d.memories[m].weight < threshold}
    IN  [db |-> DeleteMemories(d, gone), deleted |-> Cardinality(gone)]

\* UPDATE memories SET weight = MAX(weight * ?, 0.1) WHERE id = ?
PenalizeWeight(w, factor) == Max2((w * factor) \div Scale, WMin)

PenalizeBody(d, memoryId, factor) ==
    IF memoryId \in MemIds(d)
    THEN [d EXCEPT !.memories[memoryId].weight =
             PenalizeWeight(d.memories[memoryId].weight, factor)]
    ELSE d

RECURSIVE SetToSeq(_)
SetToSeq(S) ==
    IF S = {} THEN <<>>
    ELSE LET m == CHOOSE x \in S : \A y \in S : x <= y
         IN  <<m>> \o SetToSeq(S \ {m})

NoPendingRows(d) == <<>>

\* SELECT id, content FROM memories WHERE embedding IS NULL
PendingRows(d) ==
    LET S == SetToSeq({m \in MemIds(d) : d.memories[m].embedding.isNull})
    IN  [i \in DOMAIN S |-> [id |-> S[i], content |-> d.memories[S[i]].content]]

RECURSIVE WriteEmbeddingsNoWhere(_, _, _)
WriteEmbeddingsNoWhere(d, embedded, i) ==
    IF i > Len(embedded) THEN d
    ELSE WriteEmbeddingsNoWhere(
            [d EXCEPT !.memories = [m \in MemIds(d) |->
                [d.memories[m] EXCEPT !.embedding = embedded[i].embedding]]],
            embedded, i + 1)

\* The write-back as INSERT OR REPLACE: a row that is missing is stored anew.
RECURSIVE WriteEmbeddingsUpsert(_, _, _)
WriteEmbeddingsUpsert(d, embedded, i) ==
    IF i > Len(embedded) THEN d
    ELSE WriteEmbeddingsUpsert(
            IF embedded[i].id \in MemIds(d)
            THEN [d EXCEPT !.memories[embedded[i].id].embedding = embedded[i].embedding]
            ELSE InsertMemory(d, embedded[i].id,
                    NewMemory(embedded[i].embedding.text, embedded[i].embedding,
                              "insight", Scale, 0, 0, 0)),
            embedded, i + 1)

\* UPDATE memories SET embedding = ? WHERE id = ?, for each embedded row
RECURSIVE WriteEmbeddings(_, _, _)
WriteEmbeddings(d, embedded, i) ==
    IF i > Len(embedded) THEN d
    ELSE WriteEmbeddings(
            IF embedded[i].id \in MemIds(d)
            THEN [d EXCEPT !.memories[embedded[i].id].embedding = embedded[i].embedding]
            ELSE d,
            embedded, i + 1)

ContradictDeleteAlways(d, memoryId) ==
    [db |-> [DeleteMemories(d, {memoryId}) EXCEPT
                !.retrievals = {r \in d.retrievals : r.memory_id # memoryId}],
     deleted |-> TRUE]

ContradictDeleteMemoryOnly(d, memoryId) ==
    [db |-> DeleteMemories(d, {memoryId}), deleted |-> memoryId \in MemIds(d)]

\* DELETE FROM memories WHERE id = ?; DELETE FROM memory_retrievals WHERE memory_id = ?
ContradictDeleteBody(d, memoryId) ==
    [db |-> [DeleteMemories(d, {memoryId}) EXCEPT
                !.retrievals = {r \in d.retrievals : r.memory_id # memoryId}],
     deleted |-> memoryId \in MemIds(d)]

ContradictInsertBody(d, id, correction, vec, nowv, sourceTask) ==
    InsertMemory(d, id,
        NewMemory(correction, vecBuf(vec), "correction", 2 * Scale, 0, nowv, sourceTask))

\* ------------------------------------------------------------- withDb()

Upd(f, p, v) == [f EXCEPT ![p] = v]

\* A new withDb() call starts: its connects, delays and last error start over.
FreshObs(o) == [o EXCEPT !.connects = 0, !.delays = 0, !.lastErr = "none"]

\* The messages connect() can fail with.
LockMsgs == {"database is locked", "Locking error"}
OtherMsgs == {"unable to open database file"}

\* e.message?.includes("locked") || e.message?.includes("Locking")
IsLockError(msg) == msg \in LockMsgs

GiveUpLate(att, msg) == att > maxRetries \/ ~IsLockError(msg)

GiveUpOnlyExhausted(att, msg) == att >= maxRetries

\* withDb's catch: attempt >= maxRetries || not a lock error  =>  throw e
GiveUp(att, msg) == att >= maxRetries \/ ~IsLockError(msg)

KeepConn(c) == c

\* withDb's finally: db.close()
CloseConn(c) == "none"

\* The engine holds the file lock from connect() to close(): connect() succeeds
\* when no other process has a connection.
LockFreeAlways(p) == TRUE

LockFree(p) == \A q \in Procs \ {p} : conn[q] = "none" /\ ~leaked[q]

\* The operation goes on to its next await; c is its connection from there on.
Goto(p, phase, fr, c) ==
    /\ pc' = Upd(pc, p, phase)
    /\ frame' = Upd(frame, p, fr)
    /\ conn' = Upd(conn, p, c)
    /\ attempt' = Upd(attempt, p, 0)
    /\ obs' = Upd(obs, p, FreshObs(obs[p]))
    /\ UNCHANGED result

\* The operation returns res or throws it; c is what is left of its connection.
Finish(p, res, c, o) ==
    /\ pc' = Upd(pc, p, "idle")
    /\ frame' = Upd(frame, p, NoFrame)
    /\ conn' = Upd(conn, p, c)
    /\ attempt' = Upd(attempt, p, 0)
    /\ obs' = Upd(obs, p, o)
    /\ result' = Upd(result, p, res)

Ok(op, value, mems) ==
    [op |-> op, status |-> "ok", value |-> value, mems |-> mems, err |-> "none"]

Error(op, err) ==
    [op |-> op, status |-> "error", value |-> 0, mems |-> <<>>, err |-> err]

InWithDb(p) == pc[p] \in DbPhases

\* db = await connect(this.dbPath); break
Connect(p) ==
    /\ InWithDb(p) /\ conn[p] = "none"
    /\ LockFree(p)
    /\ conn' = Upd(conn, p, "open")
    /\ obs' = Upd(obs, p, [obs[p] EXCEPT !.connects = obs[p].connects + 1])
    /\ UNCHANGED <<db, ids, dimensions, now, store, pc, frame, attempt, leaked, result>>

\* connect() throws e with e.message = msg: throw it, or sleep and try again.
ConnectFails(p, msg) ==
    /\ InWithDb(p) /\ conn[p] = "none"
    /\ IF GiveUp(attempt[p], msg)
       THEN Finish(p, Error(frame[p].op, msg), "none",
                   [obs[p] EXCEPT !.connects = obs[p].connects + 1, !.lastErr = msg])
       ELSE /\ attempt' = Upd(attempt, p, attempt[p] + 1)
            /\ obs' = Upd(obs, p, [obs[p] EXCEPT !.connects = obs[p].connects + 1,
                                                 !.delays = obs[p].delays + 1,
                                                 !.lastErr = msg])
            /\ UNCHANGED <<pc, frame, conn, result>>
    /\ UNCHANGED <<db, ids, dimensions, now, store, leaked>>

\* Another process holds the file lock: connect() fails with a lock error.
ConnectLocked(p) ==
    /\ ~LockFree(p)
    /\ ConnectFails(p, "database is locked")

\* connect() fails for a reason of the environment.
ConnectFault(p, msg) == ConnectFails(p, msg)

\* await db.exec("PRAGMA busy_timeout = 5000")
Pragma(p) ==
    /\ InWithDb(p) /\ conn[p] = "open"
    /\ conn' = Upd(conn, p, "ready")
    /\ UNCHANGED <<db, ids, dimensions, now, store, pc, frame, attempt, leaked, result, obs>>

\* The PRAGMA throws: it stands before the try, so nothing closes the connection.
PragmaFails(p) ==
    /\ InWithDb(p) /\ conn[p] = "open"
    /\ leaked' = Upd(leaked, p, TRUE)
    /\ Finish(p, Error(frame[p].op, "pragma failed"), "none", obs[p])
    /\ UNCHANGED <<db, ids, dimensions, now, store>>

\* fn(db) throws at its first statement: finally closes the connection.
BodyThrows(p) ==
    /\ InWithDb(p) /\ conn[p] = "ready"
    /\ Finish(p, Error(frame[p].op, "statement failed"), CloseConn(conn[p]), obs[p])
    /\ UNCHANGED <<db, ids, dimensions, now, store, leaked>>

\* --------------------------------------------------------- the operations

\* The await that follows `await this.init()` in each operation.
FirstPhase(op) ==
    CASE op = "startTask" -> "st_embed"
      [] op = "reportCorrection" -> "rc_embed"
      [] op = "reportUserInput" -> "ru_embed"
      [] op = "endTask" -> "et_score"
      [] op = "decay" -> "dc_db"
      [] op = "purge" -> "pg_db"
      [] op = "penalizeMemory" -> "pn_db"
      [] op = "insertRawMemory" -> "ir_db"
      [] op = "embedPending" -> "ep_read"
      [] op = "contradictMemory" -> "cm_delete"
      [] OTHER -> "idle"

\* A public method is called: `await this.init()` comes first.
Begin(p, fr, newIds) ==
    /\ pc[p] = "idle"
    /\ ids.calls < MaxCalls
    /\ ids' = [newIds EXCEPT !.calls = ids.calls + 1]
    /\ pc' = Upd(pc, p, IF store[p].initialized THEN FirstPhase(fr.op) ELSE "init")
    /\ frame' = Upd(frame, p, fr)
    /\ result' = Upd(result, p, NoResult)
    /\ obs' = Upd(obs, p, FreshObs(obs[p]))
    /\ UNCHANGED <<db, dimensions, now, store, conn, attempt, leaked>>

CallInit(p) ==
    /\ pc[p] = "idle" /\ ~store[p].initialized
    /\ Begin(p, [NoFrame EXCEPT !.op = "init"], ids)

\* init()'s withDb body: schema, repair of short embeddings, load of the baseline.
InitDb(p) ==
    /\ pc[p] = "init" /\ conn[p] = "ready"
    /\ db' = InitBody(db)
    /\ store' = Upd(store, p, [store[p] EXCEPT
                    !.initialized = TRUE,
                    !.baseline = IF db.meta.has THEN db.meta.baseline ELSE @])
    /\ IF frame[p].op = "init"
       THEN Finish(p, Ok("init", 0, <<>>), CloseConn(conn[p]), obs[p])
       ELSE Goto(p, FirstPhase(frame[p].op), frame[p], CloseConn(conn[p]))
    /\ UNCHANGED <<ids, dimensions, now, leaked>>

\* close(): this.initialized = false
Close(p) ==
    /\ pc[p] = "idle" /\ store[p].initialized
    /\ ids.calls < MaxCalls
    /\ ids' = [ids EXCEPT !.calls = ids.calls + 1]
    /\ store' = Upd(store, p, [store[p] EXCEPT !.initialized = FALSE])
    /\ result' = Upd(result, p, Ok("close", 0, <<>>))
    /\ UNCHANGED <<db, dimensions, now, pc, frame, conn, attempt, leaked, obs>>

\* embed(text) resolves to a vector of len elements.
EmbedResult(len, text) == [len |-> len, text |-> text]

\* ---- startTask

CallStartTask(p, description) ==
    /\ ids.task < MaxTasks
    /\ Begin(p, [NoFrame EXCEPT !.op = "startTask", !.text = description,
                                !.taskId = ids.task + 1, !.now = now,
                                !.seen = MemIds(db)], [ids EXCEPT !.task = ids.task + 1])

\* const taskEmbedding = await this.embed(description); then embedPending()
StEmbed(p, len) ==
    /\ pc[p] = "st_embed"
    /\ Goto(p, "ep_read", [frame[p] EXCEPT !.vec = EmbedResult(len, frame[p].text)], conn[p])
    /\ UNCHANGED <<db, ids, dimensions, now, store, leaked>>

StDb(p) ==
    /\ pc[p] = "st_db" /\ conn[p] = "ready"
    /\ LET r == StartTaskBody(db, frame[p].taskId, frame[p].text,
                              vecBuf(frame[p].vec), frame[p].now, store[p].topK)
       IN  /\ db' = r.db
           /\ IF r.ok
              THEN /\ store' = Upd(store, p, [store[p] EXCEPT !.currentTaskId = frame[p].taskId])
                   /\ Finish(p, Ok("startTask", frame[p].taskId, r.mems),
                             CloseConn(conn[p]), obs[p])
              ELSE /\ store' = store
                   /\ Finish(p, Error("startTask", "vector dimension mismatch"),
                             CloseConn(conn[p]), obs[p])
    /\ UNCHANGED <<ids, dimensions, now, leaked>>

\* ---- embedPending (also the second await of startTask)

CallEmbedPending(p) ==
    /\ Begin(p, [NoFrame EXCEPT !.op = "embedPending"], ids)

\* embedPending returns to its caller.
EpReturn(p, fr, n, c) ==
    IF fr.op = "startTask"
    THEN Goto(p, "st_db", [fr EXCEPT !.pending = <<>>, !.embedded = <<>>], c)
    ELSE Finish(p, Ok("embedPending", n, <<>>), c, obs[p])

EpRead(p) ==
    /\ pc[p] = "ep_read" /\ conn[p] = "ready"
    /\ LET rows == PendingRows(db)
       IN  IF Len(rows) = 0
           THEN EpReturn(p, frame[p], 0, CloseConn(conn[p]))
           ELSE Goto(p, "ep_embed", [frame[p] EXCEPT !.pending = rows, !.embedded = <<>>],
                     CloseConn(conn[p]))
    /\ UNCHANGED <<db, ids, dimensions, now, store, leaked>>

\* const vec = await this.embed(row.content); embedded.push(...)
EpEmbed(p, len) ==
    /\ pc[p] = "ep_embed"
    /\ LET i == Len(frame[p].embedded) + 1
           row == frame[p].pending[i]
           fr == [frame[p] EXCEPT !.embedded = Append(@,
                     [id |-> row.id, embedding |-> vecBuf(EmbedResult(len, row.content))])]
       IN  Goto(p, IF i = Len(frame[p].pending) THEN "ep_write" ELSE "ep_embed", fr, conn[p])
    /\ UNCHANGED <<db, ids, dimensions, now, store, leaked>>

EpWrite(p) ==
    /\ pc[p] = "ep_write" /\ conn[p] = "ready"
    /\ db' = WriteEmbeddings(db, frame[p].embedded, 1)
    /\ EpReturn(p, frame[p], Len(frame[p].pending), CloseConn(conn[p]))
    /\ UNCHANGED <<ids, dimensions, now, store, leaked>>

\* ---- reportCorrection, reportUserInput, insertRawMemory

CallReportCorrection(p, lesson, tokensWasted) ==
    /\ ids.mem < MaxMems
    /\ Begin(p, [NoFrame EXCEPT !.op = "reportCorrection", !.text = lesson,
                                !.newId = ids.mem + 1, !.now = now,
                                !.tokensWasted = tokensWasted], [ids EXCEPT !.mem = ids.mem + 1])

RcEmbed(p, len) ==
    /\ pc[p] = "rc_embed"
    /\ Goto(p, "rc_db", [frame[p] EXCEPT !.vec = EmbedResult(len, frame[p].text)], conn[p])
    /\ UNCHANGED <<db, ids, dimensions, now, store, leaked>>

RcDb(p) ==
    /\ pc[p] = "rc_db" /\ conn[p] = "ready"
    /\ db' = ReportCorrectionBody(db, frame[p].newId, frame[p].text, frame[p].vec,
                                  frame[p].tokensWasted, frame[p].now, store[p].currentTaskId)
    /\ Finish(p, Ok("reportCorrection", frame[p].newId, <<>>), CloseConn(conn[p]), obs[p])
    /\ UNCHANGED <<ids, dimensions, now, store, leaked>>

CallReportUserInput(p, lesson, source) ==
    /\ ids.mem < MaxMems
    /\ Begin(p, [NoFrame EXCEPT !.op = "reportUserInput", !.text = lesson,
                                !.newId = ids.mem + 1, !.now = now, !.source = source], [ids EXCEPT !.mem = ids.mem + 1])

\* embed(lesson), then initialWeight("user", source)
RuEmbed(p, len) ==
    /\ pc[p] = "ru_embed"
    /\ Goto(p, "ru_db", [frame[p] EXCEPT !.vec = EmbedResult(len, frame[p].text)], conn[p])
    /\ UNCHANGED <<db, ids, dimensions, now, store, leaked>>

RuDb(p) ==
    /\ pc[p] = "ru_db" /\ conn[p] = "ready"
    /\ db' = ReportUserInputBody(db, frame[p].newId, frame[p].text, frame[p].vec,
                                 frame[p].source, frame[p].now, store[p].currentTaskId)
    /\ Finish(p, Ok("reportUserInput", frame[p].newId, <<>>), CloseConn(conn[p]), obs[p])
    /\ UNCHANGED <<ids, dimensions, now, store, leaked>>

CallInsertRaw(p, content, category, weight) ==
    /\ ids.mem < MaxMems
    /\ Begin(p, [NoFrame EXCEPT !.op = "insertRawMemory", !.text = content,
                                !.newId = ids.mem + 1, !.now = now,
                                !.category = category, !.weight = weight], [ids EXCEPT !.mem = ids.mem + 1])

IrDb(p) ==
    /\ pc[p] = "ir_db" /\ conn[p] = "ready"
    /\ db' = InsertRawBody(db, frame[p].newId, frame[p].text, frame[p].category,
                           frame[p].weight, frame[p].now, store[p].currentTaskId)
    /\ Finish(p, Ok("insertRawMemory", frame[p].newId, <<>>), CloseConn(conn[p]), obs[p])
    /\ UNCHANGED <<ids, dimensions, now, store, leaked>>

\* ---- endTask

CallEndTask(p, taskId, input) ==
    /\ Begin(p, [NoFrame EXCEPT !.op = "endTask", !.taskId = taskId, !.now = now,
                                !.input = input], ids)

\* computeTaskScore(this.baseline, ...); this.baseline = updateBaseline(this.baseline, ...)
EtScore(p) ==
    /\ pc[p] = "et_score"
    /\ LET in == frame[p].input
       IN  /\ store' = Upd(store, p, [store[p] EXCEPT !.baseline =
                          updateBaseline(store[p].baseline, in.tokensUsed, in.errors,
                                         in.userCorrections)])
           /\ Goto(p, "et_db",
                   [frame[p] EXCEPT !.taskScore =
                       computeTaskScore(store[p].baseline, in.tokensUsed, in.errors,
                                        in.userCorrections, in.completed)],
                   conn[p])
    /\ UNCHANGED <<db, ids, dimensions, now, leaked>>

\* The same scope, followed by an unconditional this.currentTaskId = null.
EtDbAlwaysClears(p) ==
    /\ pc[p] = "et_db" /\ conn[p] = "ready"
    /\ db' = EndTaskBody(db, frame[p].taskId, frame[p].input, frame[p].taskScore,
                         store[p].baseline, frame[p].now)
    /\ store' = Upd(store, p, [store[p] EXCEPT !.currentTaskId = 0])
    /\ Finish(p, Ok("endTask", 0, <<>>), CloseConn(conn[p]),
              [obs[p] EXCEPT !.endOk = @ + 1, !.endCount = store[p].baseline.count])
    /\ UNCHANGED <<ids, dimensions, now, leaked>>

EtDb(p) ==
    /\ pc[p] = "et_db" /\ conn[p] = "ready"
    /\ db' = EndTaskBody(db, frame[p].taskId, frame[p].input, frame[p].taskScore,
                         store[p].baseline, frame[p].now)
    /\ store' = Upd(store, p, [store[p] EXCEPT !.currentTaskId =
                      IF @ = frame[p].taskId THEN 0 ELSE @])
    /\ Finish(p, Ok("endTask", 0, <<>>), CloseConn(conn[p]),
              [obs[p] EXCEPT !.endOk = @ + 1, !.endCount = store[p].baseline.count])
    /\ UNCHANGED <<ids, dimensions, now, leaked>>

\* ---- decay, purge, penalizeMemory

CallDecay(p) ==
    /\ Begin(p, [NoFrame EXCEPT !.op = "decay"], ids)

DcDb(p) ==
    /\ pc[p] = "dc_db" /\ conn[p] = "ready"
    /\ LET r == DecayBody(db)
       IN  /\ db' = r.db
           /\ Finish(p, Ok("decay", r.deleted, <<>>), CloseConn(conn[p]), obs[p])
    /\ UNCHANGED <<ids, dimensions, now, store, leaked>>

CallPurge(p, threshold) ==
    /\ Begin(p, [NoFrame EXCEPT !.op = "purge", !.weight = threshold], ids)

PgDb(p) ==
    /\ pc[p] = "pg_db" /\ conn[p] = "ready"
    /\ LET r == PurgeBody(db, frame[p].weight)
       IN  /\ db' = r.db
           /\ Finish(p, Ok("purge", r.deleted, <<>>), CloseConn(conn[p]), obs[p])
    /\ UNCHANGED <<ids, dimensions, now, store, leaked>>

CallPenalize(p, memoryId, factor) ==
    /\ Begin(p, [NoFrame EXCEPT !.op = "penalizeMemory", !.memId = memoryId,
                                !.weight = factor], ids)

PnDb(p) ==
    /\ pc[p] = "pn_db" /\ conn[p] = "ready"
    /\ db' = PenalizeBody(db, frame[p].memId, frame[p].weight)
    /\ Finish(p, Ok("penalizeMemory", 0, <<>>), CloseConn(conn[p]), obs[p])
    /\ UNCHANGED <<ids, dimensions, now, store, leaked>>

\* ---- contradictMemory (correction = NoText: none given)

CallContradict(p, memoryId, correction) ==
    /\ correction # NoText => ids.mem < MaxMems
    /\ Begin(p, [NoFrame EXCEPT !.op = "contradictMemory", !.memId = memoryId,
                                !.text = correction, !.now = now,
                                !.newId = IF correction # NoText THEN ids.mem + 1 ELSE 0],
             IF correction # NoText THEN [ids EXCEPT !.mem = ids.mem + 1] ELSE ids)

CmDelete(p) ==
    /\ pc[p] = "cm_delete" /\ conn[p] = "ready"
    /\ LET r == ContradictDeleteBody(db, frame[p].memId)
       IN  /\ db' = r.db
           /\ IF frame[p].text # NoText /\ r.deleted
              THEN Goto(p, "cm_embed", [frame[p] EXCEPT !.deleted = TRUE], CloseConn(conn[p]))
              ELSE Finish(p, Ok("contradictMemory", IF r.deleted THEN 1 ELSE 0, <<>>),
                          CloseConn(conn[p]), obs[p])
    /\ UNCHANGED <<ids, dimensions, now, store, leaked>>

CmEmbed(p, len) ==
    /\ pc[p] = "cm_embed"
    /\ Goto(p, "cm_insert", [frame[p] EXCEPT !.vec = EmbedResult(len, frame[p].text)], conn[p])
    /\ UNCHANGED <<db, ids, dimensions, now, store, leaked>>

CmInsert(p) ==
    /\ pc[p] = "cm_insert" /\ conn[p] = "ready"
    /\ db' = ContradictInsertBody(db, frame[p].newId, frame[p].text, frame[p].vec,
                                  frame[p].now, store[p].currentTaskId)
    /\ Finish(p, [Ok("contradictMemory", 1, <<>>) EXCEPT !.mems =
                     <<[id |-> frame[p].newId, score |-> 0, weight |-> 2 * Scale]>>],
              CloseConn(conn[p]), obs[p])
    /\ UNCHANGED <<ids, dimensions, now, store, leaked>>

\* --------------------------------------------------------------- the inputs

Sources == {"user_correction"}

TokensWasted == {0, 60}

EndInput(report) ==
    [tokensUsed |-> 10, toolCalls |-> 1, errors |-> 0, userCorrections |-> 0,
     completed |-> TRUE, selfReport |-> report]

\* ------------------------------------------- weights: one process, a used database

SeedVec(text) == EmbedResult(8, text)

\* startTask then endTask (no self-report), for the tasks t..last; the last stays active.
RECURSIVE SeedTasks(_, _, _, _)
SeedTasks(d, baseline, t, last) ==
    IF t > last THEN d
    ELSE LET started == StartTaskBody(d, t, "a", vecBuf(SeedVec("a")), 1, TopK).db
             after == updateBaseline(baseline, 10, 0, 0)
         IN  IF t = last THEN started
             ELSE SeedTasks(
                    EndTaskBody(started, t, EndInput(<<>>),
                                computeTaskScore(baseline, 10, 0, 0, TRUE), after, 1),
                    after, t + 1, last)

SeedMemory(d, id, text, weight) ==
    WriteEmbeddings(InsertRawBody(d, id, text, "insight", weight, 1, 0),
                    <<[id |-> id, embedding |-> vecBuf(SeedVec(text))]>>, 1)

\* A database after DecayDeleteCount + 1 tasks: memory 1 was retrieved by all of
\* them, memory 2 (when there) by all, or by all but the first.
SeedDb(n, w1, w2, late) ==
    LET last == DecayDeleteCount + 1
        d1 == SeedMemory(emptyDb, 1, "a", w1)
    IN  IF n = 1 THEN SeedTasks(d1, emptyBaseline, 1, last)
        ELSE IF ~late THEN SeedTasks(SeedMemory(d1, 2, "b", w2), emptyBaseline, 1, last)
        ELSE SeedTasks(
                SeedMemory(
                    EndTaskBody(StartTaskBody(d1, 1, "a", vecBuf(SeedVec("a")), 1, TopK).db, 1,
                                EndInput(<<>>), computeTaskScore(emptyBaseline, 10, 0, 0, TRUE),
                                updateBaseline(emptyBaseline, 10, 0, 0), 1),
                    2, "b", w2),
                updateBaseline(emptyBaseline, 10, 0, 0), 2, last)

SeedWeights == {WMin, DecayDeleteWeight, Scale, WMax}

InitWeights ==
    \E n \in {1, 2}, w1 \in SeedWeights, w2 \in SeedWeights, late \in BOOLEAN :
        /\ n = 1 => (w2 = WMin /\ ~late)
        /\ InitWith(SeedDb(n, w1, w2, late),
                    [mem |-> n, task |-> DecayDeleteCount + 1, calls |-> 0], 8)

SelfReports ==
    {<<>>, <<[memoryId |-> 1, score |-> 3]>>,
     <<[memoryId |-> 1, score |-> 0], [memoryId |-> 2, score |-> 3]>>}

Factors == {Scale \div 2, 2 * Scale}

WeightCalls(p) ==
    \/ \E r \in SelfReports : CallEndTask(p, DecayDeleteCount + 1, EndInput(r))
    \/ CallDecay(p)
    \/ \E m \in 1..MaxMems, f \in Factors : CallPenalize(p, m, f)
    \/ \E w \in TokensWasted : CallReportCorrection(p, "a", w)

WeightSteps(p) ==
    \/ Connect(p)
    \/ Pragma(p)
    \/ InitDb(p)
    \/ EtScore(p)
    \/ EtDb(p)
    \/ DcDb(p)
    \/ PnDb(p)
    \/ RcEmbed(p, dimensions)
    \/ RcDb(p)

NextWeights == WeightCalls("p1") \/ WeightSteps("p1")

SpecWeights == InitWeights /\ [][NextWeights]_vars

\* C1: after any sequence of endTask, decay, penalizeMemory and reportCorrection
\* calls, every stored memory's weight lies in [0.1, 5.0].
C1_WeightBounds ==
    \A m \in MemIds(db) : db.memories[m].weight >= 100 /\ db.memories[m].weight <= 5000

\* A decay() body runs to its end in this step.
DecayStep(p) == pc[p] = "dc_db" /\ conn[p] = "ready" /\ pc'[p] = "idle"

\* C2: every memory with retrieval_count <= 5 before a decay() step still exists
\* after it, whatever its weight.
C2_DecayGuard ==
    [][\A p \in Procs : DecayStep(p) =>
          \A m \in MemIds(db) :
              db.memories[m].retrieval_count <= 5 => m \in MemIds(db')]_vars

\* decay() has deleted a memory and kept one of weight below 0.15 that was
\* retrieved at most 5 times.
C2_Witness ==
    /\ result["p1"].op = "decay" /\ result["p1"].value >= 1
    /\ \E m \in MemIds(db) :
          db.memories[m].weight < 150 /\ db.memories[m].retrieval_count <= 5

\* ----------------------------------- withDb under failures of the environment

ConnCalls(p) ==
    \/ CallInsertRaw(p, "a", "insight", Scale)
    \/ CallEmbedPending(p)

ConnSteps(p) ==
    \/ Connect(p)
    \/ \E msg \in LockMsgs \cup OtherMsgs : ConnectFault(p, msg)
    \/ Pragma(p)
    \/ PragmaFails(p)
    \/ BodyThrows(p)
    \/ InitDb(p)
    \/ IrDb(p)
    \/ EpRead(p)
    \/ EpEmbed(p, dimensions)
    \/ EpWrite(p)

NextConn == ConnCalls("p1") \/ ConnSteps("p1")

SpecConn == Init /\ [][NextConn]_vars

\* C7: every connection an operation opens is closed before the operation
\* returns or throws, on every path.
C7_ConnectionsClosed ==
    \A p \in Procs : pc[p] = "idle" => conn[p] = "none" /\ ~leaked[p]

\* C9 as claimed: one withDb never makes more than 10 connect attempts.
C9_AtMostTenAttempts == \A p \in Procs : obs[p].connects <= 10

\* C9, amended: one withDb makes at most 11 connect attempts (the first and 10
\* retries), and a lock error reaches the caller after exactly 11.
C9_ElevenAttempts ==
    \A p \in Procs :
        /\ obs[p].connects <= 11
        /\ (result[p].status = "error" /\ result[p].err \in LockMsgs)
              => obs[p].connects = 11 /\ obs[p].delays = 10

\* A lock error has reached the caller.
C9_Witness ==
    \E p \in Procs : result[p].status = "error" /\ result[p].err \in LockMsgs
                     /\ pc[p] = "idle" /\ obs[p].connects = 11

\* connect() fails in this step with a message that is no lock error.
OtherConnectFailure(p) ==
    /\ obs'[p].connects = obs[p].connects + 1
    /\ obs'[p].lastErr \in OtherMsgs
    /\ conn'[p] = "none"

\* C10: a connect failure that is no lock error reaches the caller in the same
\* step: no further attempt, no delay, and no statement of the body runs.
C10_OtherErrorPropagates ==
    [][\A p \in Procs : OtherConnectFailure(p) =>
          /\ pc'[p] = "idle"
          /\ result'[p].status = "error" /\ result'[p].err = obs'[p].lastErr
          /\ obs'[p].delays = obs[p].delays
          /\ db' = db /\ store' = store]_vars

\* The first connect() of an operation failed with another error, and the
\* caller has it.
C10_Witness ==
    \E p \in Procs : /\ pc[p] = "idle" /\ result[p].status = "error"
                     /\ result[p].err \in OtherMsgs
                     /\ obs[p].connects = 1 /\ obs[p].delays = 0

\* ------------------------------------- the baseline: two processes end tasks

BaselineCalls(p) == CallEndTask(p, 1, EndInput(<<>>))

BaselineSteps(p) ==
    \/ Connect(p)
    \/ ConnectLocked(p)
    \/ Pragma(p)
    \/ InitDb(p)
    \/ EtScore(p)
    \/ EtDb(p)

NextBaseline == \E p \in Procs : BaselineCalls(p) \/ BaselineSteps(p)

SpecBaseline == Init /\ [][NextBaseline]_vars

\* An endTask of p returns in this step.
EndTaskReturns(p) == pc[p] = "et_db" /\ conn[p] = "ready" /\ result'[p].status = "ok"

\* C5: baseline.count strictly increases with each successful endTask within a
\* process, and the count persisted under meta.baseline never decreases.
C5_BaselineMonotonic ==
    [][/\ db'.meta.baseline.count >= db.meta.baseline.count
       /\ \A p \in Procs : EndTaskReturns(p) =>
              store'[p].baseline.count > obs[p].endCount]_vars

\* C6: the persisted count is lower than the number of successful endTask
\* calls by at most one.
C6_UnderCountAtMostOne ==
    obs["p1"].endOk + obs["p2"].endOk - db.meta.baseline.count <= 1

\* --------------------------------------- the embedder returns any vector length

\* The configured length, half of it, or an empty vector.
EmbedLens == {dimensions, dimensions \div 2, 0}

EmbedCalls(p) ==
    \/ CallStartTask(p, "a")
    \/ CallReportUserInput(p, "a", "user_correction")
    \/ CallReportCorrection(p, "a", 0)
    \/ CallInsertRaw(p, "b", "insight", Scale)
    \/ CallEmbedPending(p)
    \/ \E m \in 1..MaxMems, c \in {"a", NoText} : CallContradict(p, m, c)

EmbedSteps(p) ==
    \/ Connect(p)
    \/ Pragma(p)
    \/ InitDb(p)
    \/ \E len \in EmbedLens : StEmbed(p, len)
    \/ StDb(p)
    \/ \E len \in EmbedLens : RuEmbed(p, len)
    \/ RuDb(p)
    \/ \E len \in EmbedLens : RcEmbed(p, len)
    \/ RcDb(p)
    \/ IrDb(p)
    \/ EpRead(p)
    \/ \E len \in EmbedLens : EpEmbed(p, len)
    \/ EpWrite(p)
    \/ CmDelete(p)
    \/ \E len \in EmbedLens : CmEmbed(p, len)
    \/ CmInsert(p)

NextEmbed == EmbedCalls("p1") \/ EmbedSteps("p1")

SpecEmbed == Init /\ [][NextEmbed]_vars

\* C3: every memory's embedding is NULL or exactly dimensions * 4 bytes long.
C3_EmbeddingIntegrity ==
    \A m \in MemIds(db) :
        db.memories[m].embedding.isNull
           \/ db.memories[m].embedding.bytes = dimensions * 4

\* ------------------------------- the store shared by a server and a hook process

ServerCalls(p) ==
    \/ CallStartTask(p, "a")
    \/ \E m \in 1..MaxMems : CallContradict(p, m, "a")

HookCalls(p) ==
    \/ CallInsertRaw(p, "a", "insight", Scale)
    \/ CallEmbedPending(p)

StoreSteps(p) ==
    \/ Connect(p)
    \/ ConnectLocked(p)
    \/ Pragma(p)
    \/ InitDb(p)
    \/ StEmbed(p, dimensions)
    \/ StDb(p)
    \/ EpRead(p)
    \/ EpEmbed(p, dimensions)
    \/ EpWrite(p)
    \/ IrDb(p)
    \/ CmDelete(p)
    \/ CmEmbed(p, dimensions)
    \/ CmInsert(p)

Next ==
    \/ ServerCalls("p1")
    \/ HookCalls("p2")
    \/ \E p \in Procs : StoreSteps(p)

Spec == Init /\ [][Next]_vars

\* The operation of q has read the database and has a write still to make.
BetweenReadAndWrite(q) == pc[q] \in {"ep_embed", "ep_write", "cm_embed", "cm_insert", "st_db"}

C8_EmbedOutsideConnection ==
    \A p \in Procs : pc[p] \in EmbedPhases => conn[p] = "none"

\* startTask is inside embed() between the two withDb calls of its embedPending
\* pass: the first has closed its connection, the second has not opened one.
C8_Witness ==
    \E p \in Procs :
        /\ pc[p] = "ep_embed" /\ frame[p].op = "startTask" /\ conn[p] = "none"
        /\ Len(frame[p].pending) > 0

\* C11: a startTask whose embedder returned a vector of another length than
\* dimensions fails with a dimension-mismatch error and leaves no task row.
C11_MismatchFails ==
    [][\A p \in Procs :
          (pc[p] = "st_db" /\ conn[p] = "ready" /\ frame[p].vec.len # dimensions) =>
              /\ result'[p].status = "error"
              /\ frame[p].taskId \notin TaskIds(db')]_vars

\* ------------- one process, a script: insertRawMemory, then startTask and embedPending

Texts == {"a", "b"}

\* A database that holds nothing, or one embedded memory; topK is 1 or the default.
InitPending ==
    \E n \in {0, 1}, t \in Texts, w \in SeedWeights, k \in {1, TopK} :
        /\ n = 0 => (t = "a" /\ w = WMin)
        /\ InitCfg(IF n = 0 THEN emptyDb ELSE SeedMemory(emptyDb, 1, t, w),
                   [mem |-> n, task |-> 0, calls |-> 0], 8, k)

\* The first call stores a memory without an embedding; the later ones are
\* startTask and embedPending, in any order.
PendingCalls(p) ==
    \/ ids.calls = 0 /\ \E c \in Texts : CallInsertRaw(p, c, "insight", Scale)
    \/ ids.calls > 0 /\ \E c \in Texts : CallStartTask(p, c)
    \/ ids.calls > 0 /\ CallEmbedPending(p)

PendingSteps(p) ==
    \/ Connect(p)
    \/ Pragma(p)
    \/ InitDb(p)
    \/ IrDb(p)
    \/ StEmbed(p, dimensions)
    \/ StDb(p)
    \/ EpRead(p)
    \/ EpEmbed(p, dimensions)
    \/ EpWrite(p)

NextPending == PendingCalls("p1") \/ PendingSteps("p1")

SpecPending == InitPending /\ [][NextPending]_vars

\* The call of p that has just returned, and the ids startTask returned.
Returned(p, op) == pc[p] = "idle" /\ result[p].op = op /\ result[p].status = "ok"
ReturnedIds(p) == {result[p].mems[i].id : i \in DOMAIN result[p].mems}

\* C12 as claimed, on a store that was empty: the startTask that follows
\* insertRawMemory returns 0 memories, and the embedPending after it returns 1.
C12_PendingScenario ==
    ids.mem = 1 =>
        /\ (Returned("p1", "startTask") /\ ids.calls = 2) => Len(result["p1"].mems) = 0
        /\ (Returned("p1", "embedPending") /\ TaskIds(db) # {}) => result["p1"].value = 1

\* C12, amended: the startTask that follows insertRawMemory returns the memory,
\* its own embedPending pass having stored the embedding; an embedPending after
\* a startTask returns 0.
C12_StartTaskEmbedsPending ==
    ids.mem = 1 =>
        /\ Returned("p1", "startTask") =>
               ReturnedIds("p1") = {1} /\ ~db.memories[1].embedding.isNull
        /\ (Returned("p1", "embedPending") /\ TaskIds(db) # {}) => result["p1"].value = 0

\* insertRawMemory, startTask, embedPending have run in this order on a store
\* that was empty, and embedPending found nothing to embed.
C12_Witness ==
    /\ ids.mem = 1 /\ ids.calls = 3 /\ Cardinality(TaskIds(db)) = 1
    /\ Returned("p1", "embedPending") /\ result["p1"].value = 0
    /\ ~db.memories[1].embedding.isNull

\* insertRawMemory(c); embedPending(); startTask(c) have run, in this order.
RoundTripDone(p) ==
    /\ Returned(p, "startTask") /\ ids.calls = 3 /\ ids.task = 1
    /\ db.tasks[1].description = db.memories[ids.mem].content

\* The score startTask returned for memory m (0 when it did not return m).
ReturnedScore(p, m) ==
    IF m \in ReturnedIds(p)
    THEN (CHOOSE r \in SeqRange(result[p].mems) : r.id = m).score
    ELSE 0

RoundTripHolds(p) ==
    /\ ids.mem \in ReturnedIds(p)
    /\ \A r \in SeqRange(result[p].mems) : r.score <= ReturnedScore(p, ids.mem)

\* C15 as claimed: the round trip returns the inserted memory, whatever the
\* store holds and whatever topK is.
C15_RoundTrip == RoundTripDone("p1") => RoundTripHolds("p1")

\* The embedded memories other than m that rank at least as high as m for the
\* task t (similarity * recency).
RankedNoLower(m, t) ==
    {o \in Retrievable(db) \ {m} :
        RankScore(db.memories[o], db.tasks[t].embedding, db.tasks[t].started_at)
            >= RankScore(db.memories[m], db.tasks[t].embedding, db.tasks[t].started_at)}

\* C15, amended: the round trip returns the inserted memory when fewer than topK
\* other memories rank at least as high.
C15_RoundTripWithinTopK ==
    (RoundTripDone("p1") /\ Cardinality(RankedNoLower(ids.mem, 1)) < store["p1"].topK)
        => RoundTripHolds("p1")

\* The round trip has run with topK = 1 on a store that holds another memory,
\* and has returned the inserted one.
C15_Witness ==
    /\ RoundTripDone("p1") /\ store["p1"].topK = 1 /\ Cardinality(MemIds(db)) = 2
    /\ ReturnedIds("p1") = {ids.mem}

\* A memory the retrieval has no vector for: embedding NULL, or a blob of length 0.
NoVector(row) == row.embedding.isNull \/ row.embedding.bytes = 0

\* C13: startTask never returns, and never records a retrieval row for, a memory
\* whose embedding is NULL or a zero-length blob when the retrieval query runs.
C13_NoRetrievalWithoutVector ==
    [][\A p \in Procs : (pc[p] = "st_db" /\ conn[p] = "ready") =>
          \A m \in MemIds(db) : NoVector(db.memories[m]) =>
              /\ \A i \in DOMAIN result'[p].mems : result'[p].mems[i].id # m
              /\ \A r \in db'.retrievals \ db.retrievals : r.memory_id # m]_vars

\* ------------------------- a server, and hook processes that come and go

\* A hook invocation has ended and the next one starts: a new process, with a
\* store just constructed.
NewHookProcess(p) ==
    /\ pc[p] = "idle" /\ store[p].initialized
    /\ store' = Upd(store, p, [initialized |-> FALSE, currentTaskId |-> 0,
                               baseline |-> emptyBaseline, topK |-> store[p].topK])
    /\ UNCHANGED <<db, ids, dimensions, now, pc, frame, conn, attempt, leaked, result, obs>>

VisibilitySteps(p) ==
    \/ Connect(p)
    \/ ConnectLocked(p)
    \/ Pragma(p)
    \/ InitDb(p)
    \/ StEmbed(p, dimensions)
    \/ StDb(p)
    \/ EpRead(p)
    \/ EpEmbed(p, dimensions)
    \/ EpWrite(p)
    \/ IrDb(p)

NextVisibility ==
    \/ \E c \in Texts : CallStartTask("p1", c)
    \/ \E c \in Texts : CallInsertRaw("p2", c, "insight", Scale)
    \/ NewHookProcess("p2")
    \/ \E p \in Procs : VisibilitySteps(p)

SpecVisibility == Init /\ [][NextVisibility]_vars

\* C14: when a startTask completes, every memory that was stored before it was
\* called, and still exists, has an embedding.
C14_VisibleByNextTask ==
    [][\A p \in Procs :
          (pc[p] = "st_db" /\ conn[p] = "ready" /\ result'[p].status = "ok") =>
              \A m \in frame[p].seen \cap MemIds(db') :
                  ~db'.memories[m].embedding.isNull]_vars

\* Memory id m was handed out, no insert of it is under way, and no row has it:
\* in a run where only contradictMemory deletes, m has been contradicted (or
\* was never stored).
Gone(m) ==
    /\ m <= ids.mem /\ m \notin MemIds(db)
    /\ \A p \in Procs : pc[p] # "idle" => frame[p].newId # m

\* C16: once contradictMemory has deleted memory m, m and every retrieval row of
\* m are gone, they stay gone, and no startTask that returns later returns m.
C16_ContradictedStaysGone ==
    [][\A m \in 1..ids.mem :
          /\ (m \in MemIds(db) /\ m \notin MemIds(db')) =>
                 \A r \in db'.retrievals : r.memory_id # m
          /\ Gone(m) =>
                 /\ m \notin MemIds(db')
                 /\ \A r \in db'.retrievals : r.memory_id # m
                 /\ \A p \in Procs : result'[p] # result[p] =>
                        \A i \in DOMAIN result'[p].mems : result'[p].mems[i].id # m]_vars

\* A memory was contradicted with a correction, and a startTask that ran
\* afterwards has returned the correction and not the contradicted memory.
C16_Witness ==
    \E m \in MemIds(db), g \in 1..ids.mem :
        /\ Gone(g) /\ g < m /\ db.memories[m].category = "correction"
        /\ Returned("p1", "startTask") /\ m \in ReturnedIds("p1")

\* C17: contradictMemory stores a correction (category correction, weight 2.0,
\* returned as correctionId) exactly when a correction was given and the target
\* existed and was deleted; for an id that does not exist it returns
\* deleted = false with no error and no correctionId, and inserts nothing.
C17_CorrectionIffDeleted ==
    [][\A p \in Procs :
          /\ (pc[p] = "cm_delete" /\ conn[p] = "ready") =>
                 LET existed == frame[p].memId \in MemIds(db)
                     given == frame[p].text # NoText
                 IN  /\ MemIds(db') = MemIds(db) \ {frame[p].memId}
                     /\ IF given /\ existed
                        THEN pc'[p] = "cm_embed"
                        ELSE /\ pc'[p] = "idle" /\ result'[p].status = "ok"
                             /\ result'[p].value = (IF existed THEN 1 ELSE 0)
                             /\ result'[p].mems = <<>>
          /\ (pc[p] = "cm_insert" /\ conn[p] = "ready") =>
                 LET id == frame[p].newId
                 IN  /\ frame[p].deleted /\ frame[p].text # NoText
                     /\ id \notin MemIds(db) /\ MemIds(db') = MemIds(db) \cup {id}
                     /\ db'.memories[id].category = "correction"
                     /\ db'.memories[id].weight = 2 * Scale
                     /\ db'.memories[id].content = frame[p].text
                     /\ pc'[p] = "idle" /\ result'[p].status = "ok"
                     /\ result'[p].value = 1
                     /\ Len(result'[p].mems) = 1 /\ result'[p].mems[1].id = id]_vars

\* A memory was contradicted with a correction, which is stored with weight 2.0;
\* a contradictMemory for an id that has no row has then returned deleted = false.
C17_Witness ==
    /\ Returned("p1", "contradictMemory")
    /\ result["p1"].value = 0 /\ result["p1"].mems = <<>>
    /\ \E m \in MemIds(db) : db.memories[m].category = "correction"
                              /\ db.memories[m].weight = 2 * Scale

\* C18: memory_retrievals holds at most one row per (memory_id, task_id), and an
\* insert attempt for a pair that has a row leaves the rows as they are.
C18_OneRowPerPair ==
    /\ \A r1 \in db.retrievals, r2 \in db.retrievals :
           (r1.memory_id = r2.memory_id /\ r1.task_id = r2.task_id) => r1 = r2
    /\ \A r \in db.retrievals, sim \in {0, Scale \div 2, Scale} :
           InsertOrIgnore(db.retrievals,
                          [memory_id |-> r.memory_id, task_id |-> r.task_id,
                           similarity |-> sim, self_report |-> NULLINT,
                           credit |-> NULLINT]) = db.retrievals

\* Two tasks have each retrieved the same two memories.
C18_Witness ==
    /\ Cardinality(db.retrievals) = 4
    /\ Cardinality({r.memory_id : r \in db.retrievals}) = 2
    /\ Cardinality({r.task_id : r \in db.retrievals}) = 2

\* endTask's withDb body runs in this step with taskScore = +1 and the
\* self-report [(bad, 0), (good, 3)] over two stored memories.
RatedStep(p, bad, good) ==
    /\ pc[p] = "et_db" /\ conn[p] = "ready"
    /\ frame[p].taskScore = Scale
    /\ frame[p].input.selfReport = <<[memoryId |-> bad, score |-> 0],
                                     [memoryId |-> good, score |-> 3]>>
    /\ {bad, good} \subseteq MemIds(db)

\* C19: such an endTask leaves the good memory's weight strictly greater and the
\* bad memory's strictly smaller, for every starting weight in [0.1, 5.0].
C19_GoodUpBadDown ==
    [][\A p \in Procs : RatedStep(p, 1, 2) =>
          /\ db'.memories[2].weight > db.memories[2].weight
          /\ db'.memories[1].weight < db.memories[1].weight]_vars

\* ------------------------- the decay benchmark: one process, the loop of its script

\* const ROUNDS = 60
ROUNDS == 60

\* The ids reportCorrection and reportUserInput returned for the two seeded memories.
poisonId == 1
goodId == 2

\* The metrics the script passes to endTask, tokens in thousands.
BenchInput(tokens, tools, completed, report) ==
    [tokensUsed |-> tokens, toolCalls |-> tools, errors |-> 0, userCorrections |-> 0,
     completed |-> completed, selfReport |-> report]

\* The database after the seeding: two memories of weight 1.0 with the texts t1
\* and t2, and the seeding task started (retrieving both) and ended.
BenchDb(t1, t2) ==
    LET d2 == SeedMemory(SeedMemory(emptyDb, poisonId, t1, Scale), goodId, t2, Scale)
        started == StartTaskBody(d2, 1, "a", vecBuf(SeedVec("a")), 1, TopK).db
    IN  EndTaskBody(started, 1, BenchInput(5, 10, TRUE, <<>>),
                    computeTaskScore(emptyBaseline, 5, 0, 0, TRUE),
                    updateBaseline(emptyBaseline, 5, 0, 0), 1)

\* The script's store did the seeding itself: it is initialized and holds the
\* baseline of the seeding task.
InitBench ==
    \E t1 \in Texts, t2 \in Texts :
        /\ db = BenchDb(t1, t2)
        /\ ids = [mem |-> 2, task |-> 1, calls |-> 0]
        /\ dimensions = 8
        /\ now = 1
        /\ store = [p \in Procs |->
                       [initialized |-> p = "p1", currentTaskId |-> 0,
                        baseline |-> IF p = "p1" THEN updateBaseline(emptyBaseline, 5, 0, 0)
                                                 ELSE emptyBaseline,
                        topK |-> TopK]]
        /\ pc = [p \in Procs |-> "idle"]
        /\ frame = [p \in Procs |-> NoFrame]
        /\ conn = [p \in Procs |-> "none"]
        /\ attempt = [p \in Procs |-> 0]
        /\ leaked = [p \in Procs |-> FALSE]
        /\ result = [p \in Procs |-> NoResult]
        /\ obs = [p \in Procs |-> NoObs]

\* The rounds the loop has started: the seeding task is task 1, round r's is r + 1.
BenchRound == ids.task - 1

\* memory_retrievals holds a row for memory m and task t.
Retrieved(m, t) == \E r \in db.retrievals : r.memory_id = m /\ r.task_id = t

\* The script calls a public method of its store: the loop bounds the calls.
Invoke(p, fr, newIds) ==
    /\ pc[p] = "idle"
    /\ ids' = [newIds EXCEPT !.calls = ids.calls + 1]
    /\ pc' = Upd(pc, p, IF store[p].initialized THEN FirstPhase(fr.op) ELSE "init")
    /\ frame' = Upd(frame, p, fr)
    /\ result' = Upd(result, p, NoResult)
    /\ obs' = Upd(obs, p, FreshObs(obs[p]))
    /\ UNCHANGED <<db, dimensions, now, store, conn, attempt, leaked>>

\* for (round = 1; round <= ROUNDS; round++) { startTask(...) ...
\* if (!poison && round > 1) break }
BenchStartTask(p) ==
    /\ result[p].op \in {"none", "decay"}
    /\ BenchRound < ROUNDS
    /\ BenchRound > 1 => Retrieved(poisonId, ids.task)
    /\ Invoke(p, [NoFrame EXCEPT !.op = "startTask", !.text = "a",
                                 !.taskId = ids.task + 1, !.now = now,
                                 !.seen = MemIds(db)], [ids EXCEPT !.task = ids.task + 1])

\* memories.map(m => ({ memoryId: m.id, score: m.id === poisonId ? 0 : 3 }))
BenchReport(mems) ==
    [i \in DOMAIN mems |->
        [memoryId |-> mems[i].id, score |-> IF mems[i].id = poisonId THEN 0 ELSE 3]]

\* endTask(taskId, { tokensUsed: 8000, toolCalls: 20, errors: 0, userCorrections: 0,
\* completed: true, selfReport })
BenchEndTask(p) ==
    /\ result[p].op = "startTask" /\ result[p].status = "ok"
    /\ Invoke(p, [NoFrame EXCEPT !.op = "endTask", !.taskId = result[p].value, !.now = now,
                                 !.input = BenchInput(8, 20, TRUE,
                                                      BenchReport(result[p].mems))], ids)

\* const decay = await store.decay()
BenchDecay(p) ==
    /\ result[p].op = "endTask"
    /\ Invoke(p, [NoFrame EXCEPT !.op = "decay"], ids)

BenchSteps(p) ==
    \/ Connect(p)
    \/ Pragma(p)
    \/ StEmbed(p, dimensions)
    \/ EpRead(p)
    \/ StDb(p)
    \/ EtScore(p)
    \/ EtDb(p)
    \/ DcDb(p)

NextBench ==
    \/ BenchStartTask("p1")
    \/ BenchEndTask("p1")
    \/ BenchDecay("p1")
    \/ BenchSteps("p1")

SpecBench == InitBench /\ [][NextBench]_vars

\* C20: from a bad and a good memory of weight 1.0, with every round startTask,
\* endTask rating bad = 0 and good = 3, then decay(), the bad memory is deleted
\* before round 60: the loop never gets to start round 60 with it still stored.
C20_PoisonEvicted == poisonId \in MemIds(db) => BenchRound < ROUNDS

\* decay() has just deleted the bad memory, before round 60, after rounds that each
\* retrieved both memories; the good memory is still stored.
C20_Witness ==
    /\ result["p1"].op = "decay" /\ result["p1"].value >= 1
    /\ poisonId \notin MemIds(db) /\ goodId \in MemIds(db)
    /\ BenchRound > DecayDeleteCount /\ BenchRound < ROUNDS
    /\ \A t \in 2..ids.task : Retrieved(poisonId, t) /\ Retrieved(goodId, t)

\* C21: in the poison-eviction run the good memory's weight stays >= 0.9 in every
\* round up to the deletion of the bad memory.
C21_GoodStaysHigh ==
    (poisonId \in MemIds(db) /\ goodId \in MemIds(db)) =>
        db.memories[goodId].weight >= 900

\* endTask's withDb body runs in this step with an empty self-report, on a task
\* that has a row.
UnratedStep(p) ==
    /\ pc[p] = "et_db" /\ conn[p] = "ready"
    /\ frame[p].input.selfReport = <<>>
    /\ frame[p].taskId \in TaskIds(db)

\* C22: endTask with an empty self-report changes no memory's weight and no
\* memory_retrievals row, and records task_score and finished_at on the task row.
C22_EmptyReportFrame ==
    [][\A p \in Procs : UnratedStep(p) =>
          /\ db'.memories = db.memories
          /\ db'.retrievals = db.retrievals
          /\ db'.tasks[frame[p].taskId].task_score = frame[p].taskScore
          /\ db'.tasks[frame[p].taskId].finished_at = frame[p].now]_vars

\* The one endTask so far gave no self-report: the task is finished and scored,
\* and the retrieval rows of its memories are still unrated.
C22_Witness ==
    /\ result["p1"].op = "endTask" /\ result["p1"].status = "ok"
    /\ obs["p1"].endOk = 1
    /\ db.tasks[DecayDeleteCount + 1].finished_at # NULLINT
    /\ db.tasks[DecayDeleteCount + 1].task_score # NULLINT
    /\ \E r \in db.retrievals : r.task_id = DecayDeleteCount + 1
    /\ \A r \in db.retrievals : r.task_id = DecayDeleteCount + 1 => r.self_report = NULLINT

\* ------------------------------------ every operation of one store, one process

TaskCalls(p) ==
    \/ CallStartTask(p, "a")
    \/ \E t \in 1..MaxTasks, r \in {<<>>, <<[memoryId |-> 1, score |-> 3]>>} :
          CallEndTask(p, t, EndInput(r))
    \/ CallDecay(p)
    \/ CallPurge(p, 2 * Scale)
    \/ CallPenalize(p, 1, Scale \div 2)
    \/ CallReportCorrection(p, "a", 0)
    \/ CallReportUserInput(p, "a", "user_correction")
    \/ CallInsertRaw(p, "a", "insight", Scale)
    \/ CallEmbedPending(p)
    \/ \E m \in 1..MaxMems, c \in {"a", NoText} : CallContradict(p, m, c)

TaskSteps(p) ==
    \/ Connect(p)
    \/ Pragma(p)
    \/ InitDb(p)
    \/ StEmbed(p, dimensions)
    \/ StDb(p)
    \/ EtScore(p)
    \/ EtDb(p)
    \/ DcDb(p)
    \/ PgDb(p)
    \/ PnDb(p)
    \/ RcEmbed(p, dimensions)
    \/ RcDb(p)
    \/ RuEmbed(p, dimensions)
    \/ RuDb(p)
    \/ IrDb(p)
    \/ EpRead(p)
    \/ EpEmbed(p, dimensions)
    \/ EpWrite(p)
    \/ CmDelete(p)
    \/ CmEmbed(p, dimensions)
    \/ CmInsert(p)

NextTasks == TaskCalls("p1") \/ TaskSteps("p1")

SpecTasks == Init /\ [][NextTasks]_vars

\* C23: task rows are inserted only by startTask's scope, modified only by
\* endTask's scope, and deleted by no operation.
C23_TaskLifecycle ==
    [][/\ \A t \in TaskIds(db) :
             /\ t \in TaskIds(db')
             /\ db'.tasks[t] # db.tasks[t] =>
                    \E p \in Procs : frame[p].op = "endTask" /\ pc[p] = "et_db"
                                     /\ frame[p].taskId = t
       /\ TaskIds(db') # TaskIds(db) =>
             \E p \in Procs : /\ frame[p].op = "startTask" /\ pc[p] = "st_db"
                              /\ TaskIds(db') = TaskIds(db) \cup {frame[p].taskId}]_vars

\* A task was started and ended, and a decay() after it has returned: the
\* finished task row is still there.
C23_Witness ==
    /\ result["p1"].op = "decay" /\ result["p1"].status = "ok"
    /\ \E t \in TaskIds(db) : db.tasks[t].finished_at # NULLINT

\* --------------------------- two processes run embedPending on the same rows

\* One or two rows stored by insertRawMemory and not embedded yet.
InitTwoPending ==
    \E n \in {1, 2}, t1 \in Texts, t2 \in Texts :
        /\ n = 1 => t2 = "a"
        /\ InitWith(IF n = 1
                    THEN InsertRawBody(emptyDb, 1, t1, "insight", Scale, 1, 0)
                    ELSE InsertRawBody(InsertRawBody(emptyDb, 1, t1, "insight", Scale, 1, 0),
                                       2, t2, "insight", Scale, 1, 0),
                    [mem |-> n, task |-> 0, calls |-> 0], 8)

TwoPendingSteps(p) ==
    \/ Connect(p)
    \/ ConnectLocked(p)
    \/ Pragma(p)
    \/ InitDb(p)
    \/ EpRead(p)
    \/ EpEmbed(p, dimensions)
    \/ EpWrite(p)

NextTwoPending == \E p \in Procs : CallEmbedPending(p) \/ TwoPendingSteps(p)

SpecTwoPending == InitTwoPending /\ [][NextTwoPending]_vars

\* Row m holds the vector of its own content.
OwnEmbedding(d, m) ==
    d.memories[m].embedding = vecBuf(EmbedResult(dimensions, d.memories[m].content))

\* Both processes have made embedPending calls and none is running.
BothReturned ==
    \A p \in Procs : pc[p] = "idle" /\ result[p].op = "embedPending"

\* An embedPending of p returns or throws in this step.
EpEnds(p) == frame[p].op = "embedPending" /\ pc'[p] = "idle" /\ pc[p] # "idle"

\* C24 as claimed: both calls complete without error, each returns the number of
\* rows it embedded, and after both every row holds the embedding of its content.
C24_BothComplete ==
    [][/\ \A p \in Procs : EpEnds(p) =>
              /\ result'[p].status = "ok"
              /\ result'[p].value = Len(frame[p].embedded)
       /\ BothReturned' => \A m \in MemIds(db') : OwnEmbedding(db', m)]_vars

\* C24, amended: a call fails only with the lock error, after its 11 connect
\* attempts met the other process's connection; a call that completes returns the
\* number of rows it embedded, and once both processes have completed a call
\* every row holds the embedding of its content.
C24_CompleteOrLocked ==
    [][/\ \A p \in Procs : EpEnds(p) =>
              \/ /\ result'[p].status = "ok"
                 /\ result'[p].value = Len(frame[p].embedded)
              \/ /\ result'[p].status = "error" /\ result'[p].err \in LockMsgs
                 /\ obs'[p].connects = maxRetries + 1
       /\ (BothReturned' /\ \A p \in Procs : result'[p].status = "ok")
             => \A m \in MemIds(db') : OwnEmbedding(db', m)]_vars

\* Both processes read the same pending row before either wrote it: one call has
\* completed and written the row, the other is about to write it again.
C24_Witness ==
    \E p \in Procs, q \in Procs :
        /\ p # q
        /\ pc[p] = "idle" /\ result[p].op = "embedPending"
        /\ result[p].status = "ok" /\ result[p].value >= 1
        /\ pc[q] = "ep_write" /\ frame[q].op = "embedPending"
        /\ \E i \in DOMAIN frame[q].pending :
              /\ frame[q].pending[i].id \in MemIds(db)
              /\ OwnEmbedding(db, frame[q].pending[i].id)

\* ------------------------------------------- a store that is closed and used again

CloseCalls(p) ==
    \/ CallStartTask(p, "a")
    \/ \E t \in 1..MaxTasks : CallEndTask(p, t, EndInput(<<>>))
    \/ CallReportCorrection(p, "a", 0)
    \/ Close(p)

CloseSteps(p) ==
    \/ Connect(p)
    \/ Pragma(p)
    \/ InitDb(p)
    \/ StEmbed(p, dimensions)
    \/ EpRead(p)
    \/ StDb(p)
    \/ EtScore(p)
    \/ EtDb(p)
    \/ RcEmbed(p, dimensions)
    \/ RcDb(p)

NextClose == CloseCalls("p1") \/ CloseSteps("p1")

SpecClose == Init /\ [][NextClose]_vars

\* C25: close() drops the initialized flag, the baseline cache and currentTaskId,
\* and the init() of the next call leaves the in-memory baseline equal to the one
\* persisted in meta.
C25_CloseDropsCache ==
    [][\A p \in Procs :
          /\ (store[p].initialized /\ ~store'[p].initialized) =>
                 /\ store'[p].currentTaskId = 0
                 /\ store'[p].baseline = emptyBaseline
          /\ (pc[p] = "init" /\ conn[p] = "ready") =>
                 store'[p].baseline = db.meta.baseline]_vars

\* C26: init() sets to NULL exactly the embeddings that are non-NULL and shorter
\* than dimensions * 4 bytes, and leaves one of exactly dimensions * 4 bytes as it is.
C26_RepairByDimensions ==
    [][\A p \in Procs : (pc[p] = "init" /\ conn[p] = "ready") =>
          \A m \in MemIds(db) :
              db'.memories[m].embedding =
                  IF ~db.memories[m].embedding.isNull
                        /\ db.memories[m].embedding.bytes < dimensions * 4
                  THEN NullEmb
                  ELSE db.memories[m].embedding]_vars

\* ------------------------------------------------------- the embedder raises

EmbedThrowsSwallowed(p) ==
    /\ pc[p] \in EmbedPhases
    /\ Finish(p, Ok(frame[p].op, 0, <<>>), conn[p], obs[p])
    /\ UNCHANGED <<db, ids, dimensions, now, store, leaked>>

\* await this.embed(...) rejects: no operation catches it, so the operation
\* rejects with the same error.
EmbedThrows(p) ==
    /\ pc[p] \in EmbedPhases
    /\ Finish(p, Error(frame[p].op, "embed failed"), conn[p], obs[p])
    /\ UNCHANGED <<db, ids, dimensions, now, store, leaked>>

RaiseCalls(p) ==
    \/ CallStartTask(p, "a")
    \/ CallReportCorrection(p, "a", 0)
    \/ CallReportUserInput(p, "a", "user_correction")
    \/ CallInsertRaw(p, "b", "insight", Scale)
    \/ CallEmbedPending(p)

RaiseSteps(p) ==
    \/ Connect(p)
    \/ Pragma(p)
    \/ InitDb(p)
    \/ StEmbed(p, dimensions)
    \/ StDb(p)
    \/ RcEmbed(p, dimensions)
    \/ RcDb(p)
    \/ RuEmbed(p, dimensions)
    \/ RuDb(p)
    \/ IrDb(p)
    \/ EpRead(p)
    \/ EpEmbed(p, dimensions)
    \/ EpWrite(p)
    \/ EmbedThrows(p)

NextRaise == RaiseCalls("p1") \/ RaiseSteps("p1")

SpecRaise == Init /\ [][NextRaise]_vars

\* The operation of p is inside an embed() call that settles in this step, and
\* the operation ends in the same step.
EndsAtEmbed(p) == pc[p] \in EmbedPhases /\ pc'[p] = "idle"

\* C27: when the embedder raises, the startTask, reportCorrection, reportUserInput
\* or embedPending that called it fails with that error and has written no task
\* row, no memory row and no embedding; insertRawMemory never calls the embedder
\* and succeeds.
C27_EmbedFailure ==
    [][\A p \in Procs :
          /\ EndsAtEmbed(p) =>
                /\ result'[p].status = "error" /\ result'[p].err = "embed failed"
                /\ result'[p].op = frame[p].op
                /\ db' = db
                /\ frame[p].op = "startTask" => frame[p].taskId \notin TaskIds(db')
                /\ frame[p].op \in {"reportCorrection", "reportUserInput"} =>
                       frame[p].newId \notin MemIds(db')
                /\ \A i \in DOMAIN frame[p].pending :
                       frame[p].pending[i].id \in MemIds(db') =>
                           db'.memories[frame[p].pending[i].id].embedding.isNull
          /\ frame[p].op = "insertRawMemory" =>
                /\ pc[p] \notin EmbedPhases
                /\ pc'[p] = "idle" => (result'[p].status = "ok"
                                       /\ result'[p].value \in MemIds(db'))]_vars

\* A startTask has failed with the embedder's error while a row was pending: the
\* row is still pending and there is no task row.
C27_Witness ==
    /\ pc["p1"] = "idle"
    /\ result["p1"].op = "startTask" /\ result["p1"].err = "embed failed"
    /\ TaskIds(db) = {} /\ ids.task >= 1
    /\ \E m \in MemIds(db) : db.memories[m].embedding.isNull

\* ----------------------------------------------- arguments outside their domain

\* type MemoryCategory
MemoryCategory == {"correction", "insight", "user", "consolidated", "discovery"}

\* A new database file and stores configured with topK = 0 or the default.
InitArgs ==
    \E k \in {0, TopK} : InitCfg(emptyDb, [mem |-> 0, task |-> 0, calls |-> 0], 8, k)

ArgsCalls(p) ==
    \/ \E c \in {"insight", "bogus"} : CallInsertRaw(p, "a", c, Scale)
    \/ CallEmbedPending(p)
    \/ CallStartTask(p, "a")
    \/ CallPurge(p, 2 * Scale)

ArgsSteps(p) ==
    \/ Connect(p)
    \/ Pragma(p)
    \/ InitDb(p)
    \/ IrDb(p)
    \/ EpRead(p)
    \/ EpEmbed(p, dimensions)
    \/ EpWrite(p)
    \/ StEmbed(p, dimensions)
    \/ StDb(p)
    \/ PgDb(p)

NextArgs == ArgsCalls("p1") \/ ArgsSteps("p1")

SpecArgs == InitArgs /\ [][NextArgs]_vars

\* C28: insertRawMemory with a category outside MemoryCategory, and every
\* operation of a store configured with topK < 1, fails and leaves the database
\* unchanged.
C28_InvalidArgument ==
    [][\A p \in Procs :
          /\ (frame[p].op = "insertRawMemory" /\ frame[p].category \notin MemoryCategory) =>
                /\ db' = db
                /\ pc'[p] = "idle" => result'[p].status = "error"
          /\ (store[p].topK < 1 /\ pc[p] # "idle") =>
                /\ db' = db
                /\ pc'[p] = "idle" => result'[p].status = "error"]_vars

\* ------------------------------------- the first endTask calls of a fresh store

\* The endTask calls made in a run.
MaxEndTasks == 11

\* A new store on a database holding one started task.
InitScore ==
    InitWith(StartTaskBody(emptyDb, 1, "a", vecBuf(SeedVec("a")), 1, TopK).db,
             [mem |-> 0, task |-> 1, calls |-> 0], 8)

\* The next endTask of the run, the task having used `tokens` thousand tokens.
ScoreEndTask(p, tokens) ==
    /\ obs[p].endOk < MaxEndTasks
    /\ Invoke(p, [NoFrame EXCEPT !.op = "endTask", !.taskId = 1, !.now = now,
                                 !.input = BenchInput(tokens, 1, TRUE, <<>>)], ids)

ScoreSteps(p) ==
    \/ Connect(p)
    \/ Pragma(p)
    \/ InitDb(p)
    \/ EtScore(p)
    \/ EtDb(p)

NextScore == (\E tokens \in {8, 10} : ScoreEndTask("p1", tokens)) \/ ScoreSteps("p1")

SpecScore == InitScore /\ [][NextScore]_vars

\* (mean - x) / max(mean, 1)
RatioTerm(mean, x) == ((mean - x * Scale) * Scale) \div Max2(mean, Scale)

\* The cold-start score of a task with the metrics `in` against baseline b.
ColdScore(b, in) ==
    (IF b.count = 0 THEN 0 ELSE RatioTerm(b.meanTokens, in.tokensUsed))
    + (IF b.count = 0 THEN 0 ELSE RatioTerm(b.meanErrors, in.errors))
    - (in.userCorrections * Scale) \div 2
    + (IF in.completed THEN Scale ELSE -Scale)

\* sqrt(M2 / (n - 1)), to 1/100
SampleRoot(m2, n) == ISqrt((m2 \div (n - 1)) * 10) * 10

\* The stddev as claimed: the root for n >= 2, else 1.
SdRoot(m2, n) == IF n >= 2 THEN SampleRoot(m2, n) ELSE Scale

\* The same, but 1 when the root is 0.
SdRootOrOne(m2, n) == IF n >= 2 /\ SampleRoot(m2, n) # 0 THEN SampleRoot(m2, n) ELSE Scale

\* The z-score score with the standard deviations sdT, sdE, sdU.
ZScore(b, in, sdT, sdE, sdU) ==
    - ((in.tokensUsed * Scale - b.meanTokens) * Scale) \div sdT
    - ((in.errors * Scale - b.meanErrors) * Scale) \div sdE
    - ((in.userCorrections * Scale - b.meanUserCorrections) * Scale) \div sdU
    + (IF in.completed THEN Scale ELSE -Scale)

\* endTask computes the task score in this step.
ScoringStep(p) == pc[p] = "et_score"

\* C29 as claimed: the score is the cold-start formula exactly when
\* baseline.count < 10, else the z-score formula with stddev = sqrt(M2/(n-1));
\* the 10th endTask of a fresh store is scored cold-start, the 11th by z-score.
C29_RegimeWithRoot ==
    [][\A p \in Procs : ScoringStep(p) =>
          LET b == store[p].baseline
              in == frame[p].input
          IN  /\ b.count = obs[p].endOk
              /\ obs[p].endOk + 1 <= 10 => frame'[p].taskScore = ColdScore(b, in)
              /\ obs[p].endOk + 1 >= 11 =>
                    /\ SdRoot(b.m2Tokens, b.count) # 0
                    /\ SdRoot(b.m2Errors, b.count) # 0
                    /\ SdRoot(b.m2UserCorrections, b.count) # 0
                    /\ frame'[p].taskScore =
                          ZScore(b, in, SdRoot(b.m2Tokens, b.count),
                                 SdRoot(b.m2Errors, b.count),
                                 SdRoot(b.m2UserCorrections, b.count))]_vars

\* C29, amended: the same, the stddev being sqrt(M2/(n-1)) for n >= 2 unless that
\* root is 0, and 1 then.
C29_RegimeWithRootOrOne ==
    [][\A p \in Procs : ScoringStep(p) =>
          LET b == store[p].baseline
              in == frame[p].input
          IN  /\ b.count = obs[p].endOk
              /\ obs[p].endOk + 1 <= 10 => frame'[p].taskScore = ColdScore(b, in)
              /\ obs[p].endOk + 1 >= 11 =>
                    frame'[p].taskScore =
                        ZScore(b, in, SdRootOrOne(b.m2Tokens, b.count),
                               SdRootOrOne(b.m2Errors, b.count),
                               SdRootOrOne(b.m2UserCorrections, b.count))]_vars

\* The 11th endTask of the store has returned, scored against a baseline whose
\* token counts varied; the 10 before it were scored too.
C29_Witness ==
    /\ pc["p1"] = "idle" /\ result["p1"].op = "endTask" /\ result["p1"].status = "ok"
    /\ obs["p1"].endOk = 11
    /\ store["p1"].baseline.count = 11
    /\ store["p1"].baseline.m2Tokens > 0
    /\ db.tasks[1].task_score # NULLINT

\* Between d and e the columns last_retrieved, retrieval_count and weight of
\* memory m are the same.
Untouched(d, e, m) ==
    /\ m \in MemIds(e)
    /\ e.memories[m].last_retrieved = d.memories[m].last_retrieved
    /\ e.memories[m].retrieval_count = d.memories[m].retrieval_count
    /\ e.memories[m].weight = d.memories[m].weight

\* C30: a successful startTask inserts exactly one task row (finished_at NULL) and,
\* for each returned memory, exactly one memory_retrievals row for its task, sets
\* last_retrieved = now and adds 1 to retrieval_count; every memory not returned
\* keeps its last_retrieved, retrieval_count and weight.
C30_StartTaskFrame ==
    [][\A p \in Procs : (frame[p].op = "startTask" /\ pc[p] # "idle") =>
          LET t == frame[p].taskId
              got == {result'[p].mems[i].id : i \in DOMAIN result'[p].mems}
          IN  IF pc[p] = "st_db" /\ conn[p] = "ready" /\ result'[p].status = "ok"
              THEN /\ t \notin TaskIds(db)
                   /\ TaskIds(db') = TaskIds(db) \cup {t}
                   /\ db'.tasks[t].finished_at = NULLINT
                   /\ \A u \in TaskIds(db) : db'.tasks[u] = db.tasks[u]
                   /\ db.retrievals \subseteq db'.retrievals
                   /\ \A r \in db'.retrievals \ db.retrievals :
                          r.task_id = t /\ r.memory_id \in got
                   /\ \A m \in got :
                          /\ Cardinality({r \in db'.retrievals :
                                             r.memory_id = m /\ r.task_id = t}) = 1
                          /\ db'.memories[m].last_retrieved = frame[p].now
                          /\ db'.memories[m].retrieval_count =
                                 db.memories[m].retrieval_count + 1
                          /\ db'.memories[m].weight = db.memories[m].weight
                   /\ \A m \in MemIds(db) \ got : Untouched(db, db', m)
              ELSE /\ db'.tasks = db.tasks
                   /\ db'.retrievals = db.retrievals
                   /\ \A m \in MemIds(db) : Untouched(db, db', m)]_vars

\* A startTask with topK = 1 has returned one of two embedded memories: the
\* other one was never retrieved.
C30_Witness ==
    /\ pc["p1"] = "idle"
    /\ result["p1"].op = "startTask" /\ result["p1"].status = "ok"
    /\ Len(result["p1"].mems) = 1
    /\ Cardinality(Retrievable(db)) = 2
    /\ \E m \in MemIds(db) : db.memories[m].retrieval_count = 0
    /\ \E m \in MemIds(db) : db.memories[m].retrieval_count >= 1

\* ------------------------------------------------ retrieval and stored weights

\* The database d with the weight of every memory replaced by w[m].
Reweigh(d, w) ==
    [d EXCEPT !.memories = [m \in MemIds(d) |-> [d.memories[m] EXCEPT !.weight = w[m]]]]

\* The ids a sequence of returned memories holds, in order.
IdsOf(mems) == [i \in DOMAIN mems |-> mems[i].id]

\* C31: what startTask returns does not depend on the stored weights: on every
\* store that differs from this one only in memory weights, the same description
\* at the same time returns the same ids in the same order, and the score of each
\* returned memory is its similarity to the description.
C31_WeightFreeRanking ==
    [][\A p \in Procs :
          (pc[p] = "st_db" /\ conn[p] = "ready" /\ result'[p].status = "ok") =>
             /\ \A w \in [MemIds(db) -> SeedWeights] :
                   LET other == StartTaskBody(Reweigh(db, w), frame[p].taskId, frame[p].text,
                                              vecBuf(frame[p].vec), frame[p].now,
                                              store[p].topK)
                   IN  other.ok /\ IdsOf(other.mems) = IdsOf(result'[p].mems)
             /\ \A i \in DOMAIN result'[p].mems :
                   result'[p].mems[i].score =
                       Similarity(db.memories[result'[p].mems[i].id].embedding.text,
                                  frame[p].text)]_vars

\* A startTask with topK = 1 has returned the lighter of two embedded memories,
\* the one whose text is the description.
C31_Witness ==
    /\ Returned("p1", "startTask") /\ Len(result["p1"].mems) = 1
    /\ Cardinality(Retrievable(db)) = 2
    /\ \E m \in MemIds(db) \ ReturnedIds("p1") :
          db.memories[m].weight > db.memories[result["p1"].mems[1].id].weight
    /\ result["p1"].mems[1].score = Scale

\* C32: a successful startTask returns min(topK, N) memories, N being the number
\* of memories whose embedding is not NULL when its SELECT runs; with topK above N
\* it returns all of them.
C32_ReturnsMinTopK ==
    [][\A p \in Procs :
          (pc[p] = "st_db" /\ conn[p] = "ready" /\ result'[p].status = "ok") =>
             LET N == Cardinality(Retrievable(db))
                 got == {result'[p].mems[i].id : i \in DOMAIN result'[p].mems}
             IN  /\ Len(result'[p].mems) = Min2(store[p].topK, N)
                 /\ Cardinality(got) = Len(result'[p].mems)
                 /\ got \subseteq Retrievable(db)
                 /\ store[p].topK > N => got = Retrievable(db)]_vars

\* A startTask with the default topK has returned both of the two embedded memories.
C32_Witness ==
    /\ Returned("p1", "startTask") /\ store["p1"].topK = TopK
    /\ Cardinality(Retrievable(db)) = 2
    /\ ReturnedIds("p1") = Retrievable(db)
    /\ Len(result["p1"].mems) = 2

\* ------------------------------------------------------------- currentTaskId

\* The operations that store a memory with source_task = this.currentTaskId.
StoringOps == {"reportCorrection", "reportUserInput", "insertRawMemory"}

\* The scope of the running operation of p completes in this step.
ScopeReturns(p, phases) ==
    pc[p] \in phases /\ conn[p] = "ready" /\ result'[p].status = "ok"

\* C33: a successful startTask leaves currentTaskId at the id of the task it
\* started; a successful endTask(t) resets it when it equals t and leaves it
\* otherwise; no other step changes it; and the memory that reportCorrection,
\* reportUserInput or insertRawMemory stores has source_task = currentTaskId,
\* which has not changed since the call began.
C33_CurrentTaskId ==
    [][\A p \in Procs :
          LET cur == store[p].currentTaskId
              after == store'[p].currentTaskId
          IN  /\ ScopeReturns(p, {"st_db"}) =>
                    after = frame[p].taskId /\ result'[p].value = frame[p].taskId
              /\ ScopeReturns(p, {"et_db"}) =>
                    after = (IF cur = frame[p].taskId THEN 0 ELSE cur)
              /\ after # cur => ScopeReturns(p, {"st_db", "et_db"})
              /\ ScopeReturns(p, {"rc_db", "ru_db", "ir_db"}) =>
                    /\ frame[p].op \in StoringOps
                    /\ frame[p].newId \in MemIds(db') \ MemIds(db)
                    /\ db'.memories[frame[p].newId].source_task = cur]_vars

\* Two tasks were started and endTask of the first has returned: currentTaskId
\* is still the second.
C33_Witness ==
    /\ Returned("p1", "endTask") /\ TaskIds(db) = {1, 2}
    /\ db.tasks[1].finished_at # NULLINT
    /\ store["p1"].currentTaskId = 2

\* ------------------------- one process: tasks that used no tokens, then a correction

\* endTask's input for a task that used `tokens` tokens.
TokenInput(tokens) == [EndInput(<<>>) EXCEPT !.tokensUsed = tokens]

CorrectionCalls(p) ==
    \/ CallStartTask(p, "a")
    \/ \E t \in TaskIds(db), tokens \in {0, 10} : CallEndTask(p, t, TokenInput(tokens))
    \/ \E w \in TokensWasted : CallReportCorrection(p, "a", w)

CorrectionSteps(p) ==
    \/ Connect(p)
    \/ Pragma(p)
    \/ InitDb(p)
    \/ StEmbed(p, dimensions)
    \/ EpRead(p)
    \/ StDb(p)
    \/ EtScore(p)
    \/ EtDb(p)
    \/ RcEmbed(p, dimensions)
    \/ RcDb(p)

NextCorrection == CorrectionCalls("p1") \/ CorrectionSteps("p1")

SpecCorrection == Init /\ [][NextCorrection]_vars

\* The tasks endTask has finished.
Finished(d) == {t \in TaskIds(d) : d.tasks[t].finished_at # NULLINT}

\* C34: reportCorrection stores weight = 1.0 + tokensWasted / max(avg, 1), avg
\* being the average tokens_used of the finished tasks, and 10000 when no task is
\* finished; an average of 0 gives the divisor 1.
C34_CorrectionWeight ==
    [][\A p \in Procs : ScopeReturns(p, {"rc_db"}) =>
          LET S == Finished(db)
              avg == IF S = {} THEN 10000
                     ELSE Max2(SumTokens(db, S) \div Cardinality(S), 1)
          IN  db'.memories[frame[p].newId].weight =
                  Scale + (frame[p].tokensWasted * Scale) \div avg]_vars

\* ------------------------------------------------- memories and their retrieval rows

\* C35: every memory_retrievals row refers to a memory that exists: whatever
\* deletes a memory (contradictMemory, decay, purge) deletes its retrieval rows.
C35_RetrievalsReferToMemories ==
    \A r \in db.retrievals : r.memory_id \in MemIds(db)

\* The count of the baseline persisted in meta (0 while there is no row).
PersistedCount(d) == IF d.meta.has THEN d.meta.baseline.count ELSE 0

\* C36: in one process using the store sequentially, the persisted
\* baseline.count equals the number of task rows with finished_at set: endTask
\* of an ended task, or of an id without a row, does not advance the baseline.
C36_BaselineCountsFinishedTasks ==
    PersistedCount(db) = Cardinality(Finished(db))

\* ------------------- two processes: one deletes while the other writes to the rows

\* After DecayDeleteCount + 1 tasks that retrieved memory 1 (weight 0.1); memory 2
\* was stored by insertRawMemory and has no embedding yet.
InitGone ==
    InitWith(InsertRawBody(SeedDb(1, WMin, WMin, FALSE), 2, "b", "insight", WMin, 1, 0),
             [mem |-> 2, task |-> DecayDeleteCount + 1, calls |-> 0], 8)

\* The process that writes: embedPending, and endTask with a self-report.
WriterCalls(p) ==
    \/ CallEmbedPending(p)
    \/ \E m \in 1..2 :
          CallEndTask(p, DecayDeleteCount + 1, EndInput(<<[memoryId |-> m, score |-> 3]>>))

\* The process that deletes: contradictMemory, decay, purge.
DeleterCalls(p) ==
    \/ \E m \in 1..2 : CallContradict(p, m, NoText)
    \/ CallDecay(p)
    \/ CallPurge(p, 2 * Scale)

GoneSteps(p) ==
    \/ Connect(p)
    \/ Pragma(p)
    \/ InitDb(p)
    \/ EpRead(p)
    \/ EpEmbed(p, dimensions)
    \/ EpWrite(p)
    \/ EtScore(p)
    \/ EtDb(p)
    \/ CmDelete(p)
    \/ DcDb(p)
    \/ PgDb(p)

NextGone ==
    \/ WriterCalls("p1")
    \/ DeleterCalls("p2")
    \/ \E p \in Procs : GoneSteps(p)

SpecGone == InitGone /\ [][NextGone]_vars

\* Process p holds a write for memory m that it has still to make: the embedding
\* of m to write back, or a self-report that names m.
WriteInFlight(p, m) ==
    \/ /\ pc[p] = "ep_write"
       /\ \E i \in DOMAIN frame[p].embedded : frame[p].embedded[i].id = m
    \/ /\ pc[p] \in {"et_score", "et_db"}
       /\ \E i \in DOMAIN frame[p].input.selfReport :
             frame[p].input.selfReport[i].memoryId = m

\* C37: a memory that contradictMemory, decay or purge has deleted does not come
\* back: no step, in particular no write-back of embedPending and no self-report
\* of endTask that another process had in flight for it, stores a row with its id.
C37_NoResurrection ==
    [][\A m \in 1..ids.mem : Gone(m) => m \notin MemIds(db')]_vars

\* Memory 1 has been deleted by the other process while this one still holds its
\* embedding to write back, and the connection for the write is open.
C37_Witness ==
    /\ Gone(1) /\ WriteInFlight("p1", 1)
    /\ pc["p1"] = "ep_write" /\ conn["p1"] = "ready"
    /\ pc["p2"] = "idle" /\ result["p2"].status = "ok"

\* --------------- two processes: retrievals, outcomes and deletions on a used database

\* After DecayDeleteCount + 1 tasks that retrieved both memories: memory 1 has
\* weight 0.1, memory 2 weight 1.0; the last task is still active.
InitCounts ==
    InitWith(SeedDb(2, WMin, Scale, FALSE),
             [mem |-> 2, task |-> DecayDeleteCount + 1, calls |-> 0], 8)

\* startTask(description) on the used database.
CountStartTask(p, description) ==
    /\ ids.calls < MaxCalls
    /\ ids.task < DecayDeleteCount + 1 + MaxTasks
    /\ Invoke(p, [NoFrame EXCEPT !.op = "startTask", !.text = description,
                                 !.taskId = ids.task + 1, !.now = now,
                                 !.seen = MemIds(db)], [ids EXCEPT !.task = ids.task + 1])

CountCallsA(p) ==
    \/ CountStartTask(p, "a")
    \/ CallEndTask(p, DecayDeleteCount + 1, EndInput(<<[memoryId |-> 1, score |-> 3]>>))

CountCallsB(p) ==
    \/ CountStartTask(p, "b")
    \/ CallDecay(p)
    \/ CallPurge(p, Scale \div 2)
    \/ \E m \in 1..2 : CallContradict(p, m, NoText)

CountSteps(p) ==
    \/ Connect(p)
    \/ Pragma(p)
    \/ InitDb(p)
    \/ StEmbed(p, dimensions)
    \/ EpRead(p)
    \/ EpEmbed(p, dimensions)
    \/ EpWrite(p)
    \/ StDb(p)
    \/ EtScore(p)
    \/ EtDb(p)
    \/ DcDb(p)
    \/ PgDb(p)
    \/ CmDelete(p)

NextCounts ==
    \/ CountCallsA("p1")
    \/ CountCallsB("p2")
    \/ \E p \in Procs : CountSteps(p)

SpecCounts == InitCounts /\ [][NextCounts]_vars

\* The memory_retrievals rows of memory m.
RetrievalsOf(d, m) == {r \in d.retrievals : r.memory_id = m}

\* C38: for every memory that exists, retrieval_count is the number of
\* memory_retrievals rows with its id, whatever startTask, endTask, decay, purge
\* and contradictMemory calls the processes have made.
C38_CountMatchesRows ==
    \A m \in MemIds(db) :
        db.memories[m].retrieval_count = Cardinality(RetrievalsOf(db, m))

\* Memory 1 has been deleted by decay or purge (its rows are still there), and a
\* startTask that ran afterwards has retrieved memory 2 once more.
C38_Witness ==
    /\ MemIds(db) = {2} /\ RetrievalsOf(db, 1) # {}
    /\ Returned("p1", "startTask") /\ ReturnedIds("p1") = {2}
    /\ db.memories[2].retrieval_count = DecayDeleteCount + 2

\* --------------------------------- one process: contradictMemory with failures

ContradictCalls(p) ==
    \/ ids.calls = 0 /\ CallReportCorrection(p, "a", 0)
    \/ ids.calls > 0 /\ CallStartTask(p, "a")
    \/ ids.calls > 0 /\ \E m \in 1..MaxMems : CallContradict(p, m, "b")

ContradictSteps(p) ==
    \/ Connect(p)
    \/ Pragma(p)
    \/ InitDb(p)
    \/ RcEmbed(p, dimensions)
    \/ RcDb(p)
    \/ StEmbed(p, dimensions)
    \/ EpRead(p)
    \/ StDb(p)
    \/ CmDelete(p)
    \/ CmEmbed(p, dimensions)
    \/ CmInsert(p)
    \/ EmbedThrows(p)
    \/ BodyThrows(p)

NextContradict == ContradictCalls("p1") \/ ContradictSteps("p1")

SpecContradict == Init /\ [][NextContradict]_vars

\* C39: contradictMemory with a correction is all-or-nothing: when embedding the
\* correction or the insert after it fails, the memory the call was given, which
\* its first scope found and deleted, is present when the call has failed.
C39_ContradictAllOrNothing ==
    [][\A p \in Procs :
          (/\ frame[p].op = "contradictMemory" /\ frame[p].text # NoText
           /\ pc[p] \in {"cm_embed", "cm_insert"} /\ frame[p].deleted
           /\ result'[p].status = "error")
              => frame[p].memId \in MemIds(db')]_vars

\* ------------------------------------------- one process: endTask with failures

EndFailCalls(p) ==
    \/ CallStartTask(p, "a")
    \/ \E t \in 1..MaxTasks, tokens \in {0, 10} : CallEndTask(p, t, TokenInput(tokens))

EndFailSteps(p) ==
    \/ Connect(p)
    \/ ConnectFault(p, "disk I/O error")
    \/ Pragma(p)
    \/ InitDb(p)
    \/ StEmbed(p, dimensions)
    \/ EpRead(p)
    \/ StDb(p)
    \/ EtScore(p)
    \/ EtDb(p)
    \/ BodyThrows(p)

NextEndFail == EndFailCalls("p1") \/ EndFailSteps("p1")

SpecEndFail == Init /\ [][NextEndFail]_vars

\* The baseline persisted in meta (the empty one while there is no row): in one
\* process it is what the cache held before the call, if no call changes the
\* cache without persisting it.
PersistedBaseline(d) == IF d.meta.has THEN d.meta.baseline ELSE emptyBaseline

\* C40: when endTask fails (connect attempts exhausted, or a statement error),
\* the baseline cache and currentTaskId are what they were before the call: the
\* cache is still the persisted baseline, so a retry counts the task once.
C40_FailedEndTaskNoEffect ==
    [][\A p \in Procs :
          (/\ frame[p].op = "endTask" /\ pc[p] # "idle"
           /\ pc'[p] = "idle" /\ result'[p].status = "error")
              => /\ store'[p].currentTaskId = store[p].currentTaskId
                 /\ store'[p].baseline = PersistedBaseline(db')]_vars

====
